---- MODULE Spec2Model ----
(***************************************************************************)
(* Model of CppStateMachineFramework::StateMachine (src/code/src/          *)
(* StateMachine.cpp).  The machine's members are the variables m_*; every  *)
(* public method is one action that runs the whole method, including the   *)
(* callbacks it invokes and the enqueue calls those callbacks make.        *)
(* Callbacks are std::function objects: the configuration stores whether   *)
(* a callback is set (TRUE) or empty (FALSE); what a set callback does     *)
(* (the value a guard returns, the events it enqueues on the machine) is   *)
(* an input of the operation that invokes it.                              *)
(***************************************************************************)
EXTENDS Naturals, Sequences, FiniteSets, TLC

\* ------------------------------------------------------------------ bounds

\* Longest event queue the public enqueue actions build
MaxQueue == 2

\* Most calls that the callbacks of one start()/processNextEvent() make on the
\* machine and that return to them
MaxCallbackAdds == 1

\* State names passed to the configuration methods ("" is the empty QString)
StateNames == {"a", "b"}

\* Event names passed to addEventToFront()/addEventToBack()
EventNames == {"e", "f"}

\* Event names used as transition triggers
TriggerNames == {"e"}

\* Name of the startup event of start() (StateMachine.hpp: default argument)
StartedEvent == "Started"

\* Most configuration items (states, entry and exit actions, transitions,
\* initial transition) a client registers on one machine
MaxConfig == 3

\* ------------------------------------------------------------------- state

VARIABLES
    m_states,               \* std::unordered_map<QString, StateData>
    m_initialTransition,    \* InitialTransitionData
    m_validationStatus,     \* ValidationStatus
    m_started,              \* bool
    m_currentState,         \* QString
    m_eventQueue,           \* std::deque<Event>, events by name
    m_finalEvent,           \* std::unique_ptr<Event>: <<>> or <<name>>
    last,                   \* the last public call: method, event, return value, branch,
                            \* validation status at the call, names given to a
                            \* configuration call
    calls,                  \* the callbacks the last public call invoked, in order
    mutex,                  \* m_startedMutex, m_eventQueueMutex, m_apiMutex: the thread
                            \* that holds each QMutex
    threads                 \* per client thread, the calls it is in: the public call
                            \* and, above it, a call made by a running callback

vars == <<m_states, m_initialTransition, m_validationStatus, m_started,
          m_currentState, m_eventQueue, m_finalEvent, last, calls, mutex, threads>>

\* Client threads that share the machine
Threads == {"t1", "t2"}

\* The holder of a QMutex that is not locked
NoThread == "-"

\* The three mutexes of a machine no thread is using
Unlocked ==
    [m_startedMutex |-> NoThread, m_eventQueueMutex |-> NoThread, m_apiMutex |-> NoThread]

\* No thread is inside a call
Idle == [t \in Threads |-> <<>>]

\* A default-constructed StateData {}
EmptyStateData ==
    [entryAction |-> FALSE, exitAction |-> FALSE,
     stateTransitions |-> <<>>, internalTransitions |-> <<>>,
     defaultStateTransition |-> <<>>, defaultInternalTransition |-> <<>>]

\* map[key] = value on a std::unordered_map
MapPut(map, key, value) ==
    [k \in (DOMAIN map) \cup {key} |-> IF k = key THEN value ELSE map[k]]

\* The members of the machine as one value, with the callback log
Machine ==
    [states |-> m_states, initial |-> m_initialTransition,
     status |-> m_validationStatus, started |-> m_started,
     cur |-> m_currentState, queue |-> m_eventQueue, final |-> m_finalEvent,
     calls |-> <<>>]

\* The return value of a public call, with the validation status it found
Return(op, ev, ret, branch) ==
    [op |-> op, ev |-> ev, ret |-> ret, branch |-> branch, status |-> m_validationStatus,
     args |-> <<>>]

\* The return value of a configuration call, with the names it was given
ConfigReturn(op, args, ret) == [Return(op, "", ret, "-") EXCEPT !.args = args]

\* Assign the members from a machine value
Commit(m, r) ==
    /\ m_states' = m.states
    /\ m_initialTransition' = m.initial
    /\ m_validationStatus' = m.status
    /\ m_started' = m.started
    /\ m_currentState' = m.cur
    /\ m_eventQueue' = m.queue
    /\ m_finalEvent' = m.final
    /\ calls' = m.calls
    /\ last' = r
    /\ UNCHANGED <<mutex, threads>>

\* StateMachine::StateMachine()
Init ==
    /\ m_states = <<>>
    /\ m_initialTransition = [state |-> "", action |-> FALSE]
    /\ m_validationStatus = "Unvalidated"
    /\ m_started = FALSE
    /\ m_currentState = ""
    /\ m_eventQueue = <<>>
    /\ m_finalEvent = <<>>
    /\ last = Return("StateMachine", "", TRUE, "-")
    /\ calls = <<>>
    /\ mutex = Unlocked
    /\ threads = Idle

\* ------------------------------------------------- callbacks and the queue

\* The result of a method: the machine after it and the value it returned
Result(m, ret) == [m |-> m, ret |-> ret]

\* Mutant of addEventToFront: the event is put behind the pending events
addEventToFront_PushesBack(m, event) ==
    IF event = "" THEN Result(m, FALSE)
    ELSE IF ~m.started THEN Result(m, FALSE)
    ELSE Result([m EXCEPT !.queue = Append(m.queue, event)], TRUE)

\* StateMachine::addEventToFront(Event &&)
addEventToFront(m, event) ==
    IF event = "" THEN Result(m, FALSE)
    ELSE IF ~m.started THEN Result(m, FALSE)
    ELSE Result([m EXCEPT !.queue = <<event>> \o m.queue], TRUE)

\* Mutant of addEventToBack: the check of the started flag is missing
addEventToBack_NoStartedCheck(m, event) ==
    IF event = "" THEN Result(m, FALSE)
    ELSE Result([m EXCEPT !.queue = Append(m.queue, event)], TRUE)

\* StateMachine::addEventToBack(Event &&)
addEventToBack(m, event) ==
    IF event = "" THEN Result(m, FALSE)
    ELSE IF ~m.started THEN Result(m, FALSE)
    ELSE Result([m EXCEPT !.queue = Append(m.queue, event)], TRUE)

\* The enqueue calls a callback makes on the machine while it runs: each
\* request is [front, ev]; the result carries the value each call returned
RECURSIVE RunAdds(_, _, _)
RunAdds(m, requests, done) ==
    IF requests = <<>> THEN [m |-> m, adds |-> done]
    ELSE LET q == Head(requests)
             r == IF q.front THEN addEventToFront(m, q.ev) ELSE addEventToBack(m, q.ev)
         IN RunAdds(r.m, Tail(requests),
                    Append(done, [front |-> q.front, ev |-> q.ev, ret |-> r.ret]))

\* The requests of the plan that belong to the idx-th callback of the call
RequestsAt(plan, idx) ==
    LET Mine(p) == p.at = idx
        RECURSIVE Strip(_)
        Strip(s) == IF s = <<>> THEN <<>>
                    ELSE <<[front |-> Head(s).front, ev |-> Head(s).ev]>> \o Strip(Tail(s))
    IN Strip(SelectSeq(plan, Mine))

\* Invocation of a set std::function: the log records the callback, its
\* arguments, the value it returned, the members it could observe when it was
\* called, and the enqueue calls it made
Invoke(m, cb, args, retv, plan) ==
    LET idx == Len(m.calls) + 1
        r == RunAdds(m, RequestsAt(plan, idx), <<>>)
    IN [r.m EXCEPT !.calls = Append(m.calls,
            [cb |-> cb, args |-> args, ret |-> retv,
             cur |-> m.cur, started |-> m.started,
             queue |-> m.queue, final |-> m.final, adds |-> r.adds])]

\* ------------------------------------------------------- private methods

\* StateMachine::isFinalState
isFinalState(stateData) ==
    /\ DOMAIN stateData.stateTransitions = {}
    /\ DOMAIN stateData.internalTransitions = {}
    /\ stateData.defaultStateTransition = <<>>
    /\ stateData.defaultInternalTransition = <<>>

\* Mutant of stopInternal: stopping also drops the pending events
stopInternal_ClearsQueue(m) ==
    IF ~m.started THEN Result(m, FALSE)
    ELSE Result([m EXCEPT !.started = FALSE, !.queue = <<>>], TRUE)

\* Mutant of stopInternal: stopping also clears the current state
stopInternal_ClearsCurrentState(m) ==
    IF ~m.started THEN Result(m, FALSE)
    ELSE Result([m EXCEPT !.started = FALSE, !.cur = ""], TRUE)

\* StateMachine::stopInternal
stopInternal(m) ==
    IF ~m.started THEN Result(m, FALSE)
    ELSE Result([m EXCEPT !.started = FALSE], TRUE)

\* StateMachine::traverseStates: statesReached is the in/out set; the loop
\* over stateData.stateTransitions is the recursion over the pending triggers
RECURSIVE traverseStates(_, _, _), traverseTransitions(_, _, _, _)
traverseTransitions(states, stateData, pending, statesReached) ==
    IF pending = {} THEN statesReached
    ELSE LET trigger == CHOOSE t \in pending : TRUE
             transitionData == stateData.stateTransitions[trigger]
             reached == IF transitionData.state \in statesReached
                        THEN statesReached
                        ELSE traverseStates(states, transitionData.state, statesReached)
         IN traverseTransitions(states, stateData, pending \ {trigger}, reached)

traverseStates(states, stateName, statesReached) ==
    LET reached == statesReached \cup {stateName}
    IN IF stateName \notin DOMAIN states THEN reached
       ELSE traverseTransitions(states, states[stateName],
                                DOMAIN states[stateName].stateTransitions, reached)

\* Mutant of executeInitialTransition: the entry action of the initial state
\* runs before the action of the initial transition
executeInitialTransition_EntryFirst(m, event, plan) ==
    LET initialState == m.initial.state
        stateData == m.states[initialState]
        m1 == IF stateData.entryAction
              THEN Invoke(m, "entryAction", <<event, initialState, "">>, TRUE, plan)
              ELSE m
        m2 == IF m.initial.action
              THEN Invoke(m1, "initialAction", <<event, initialState>>, TRUE, plan)
              ELSE m1
        m3 == [m2 EXCEPT !.cur = initialState]
    IN IF isFinalState(stateData)
       THEN stopInternal([m3 EXCEPT !.final = <<event>>]).m
       ELSE m3

\* Mutant of executeInitialTransition: a final initial state does not stop the
\* machine
executeInitialTransition_NoAutoStop(m, event, plan) ==
    LET initialState == m.initial.state
        m1 == IF m.initial.action
              THEN Invoke(m, "initialAction", <<event, initialState>>, TRUE, plan)
              ELSE m
    IN IF initialState \notin DOMAIN m1.states THEN m1
       ELSE LET stateData == m1.states[initialState]
                m2 == IF stateData.entryAction
                      THEN Invoke(m1, "entryAction", <<event, initialState, "">>, TRUE, plan)
                      ELSE m1
            IN [m2 EXCEPT !.cur = initialState]

\* StateMachine::executeInitialTransition
executeInitialTransition(m, event, plan) ==
    LET initialState == m.initial.state
        m1 == IF m.initial.action
              THEN Invoke(m, "initialAction", <<event, initialState>>, TRUE, plan)
              ELSE m
    IN IF initialState \notin DOMAIN m1.states THEN m1
       ELSE LET stateData == m1.states[initialState]
                m2 == IF stateData.entryAction
                      THEN Invoke(m1, "entryAction", <<event, initialState, "">>, TRUE, plan)
                      ELSE m1
                m3 == [m2 EXCEPT !.cur = initialState]
            IN IF isFinalState(stateData)
               THEN stopInternal([m3 EXCEPT !.final = <<event>>]).m
               ELSE m3

\* Mutant of executeStateTransition: m_currentState is assigned before the
\* entry action of the next state runs
executeStateTransition_CommitBeforeEntry(m, transitionData, event, plan, guardResult) ==
    LET from == m.cur
        to == transitionData.state
        m1 == IF transitionData.guard
              THEN Invoke(m, "guard", <<event, from, to>>, guardResult, plan)
              ELSE m
    IN IF transitionData.guard /\ ~guardResult THEN m1
       ELSE LET m2 == IF m1.states[from].exitAction
                      THEN Invoke(m1, "exitAction", <<event, from, to>>, TRUE, plan)
                      ELSE m1
                m3 == IF transitionData.action
                      THEN Invoke(m2, "action", <<event, from, to>>, TRUE, plan)
                      ELSE m2
                m4 == [m3 EXCEPT !.cur = to]
                m5 == IF m4.states[to].entryAction
                      THEN Invoke(m4, "entryAction", <<event, to, from>>, TRUE, plan)
                      ELSE m4
            IN IF isFinalState(m5.states[to])
               THEN stopInternal([m5 EXCEPT !.final = <<event>>]).m
               ELSE m5

\* Mutant of executeStateTransition: the final event is stored but the machine
\* is not stopped when the next state is final
executeStateTransition_NoAutoStop(m, transitionData, event, plan, guardResult) ==
    LET from == m.cur
        to == transitionData.state
        m1 == IF transitionData.guard
              THEN Invoke(m, "guard", <<event, from, to>>, guardResult, plan)
              ELSE m
    IN IF transitionData.guard /\ ~guardResult THEN m1
       ELSE LET m2 == IF m1.states[from].exitAction
                      THEN Invoke(m1, "exitAction", <<event, from, to>>, TRUE, plan)
                      ELSE m1
                m3 == IF transitionData.action
                      THEN Invoke(m2, "action", <<event, from, to>>, TRUE, plan)
                      ELSE m2
                m5 == IF m3.states[to].entryAction
                      THEN Invoke(m3, "entryAction", <<event, to, from>>, TRUE, plan)
                      ELSE m3
                m6 == [m5 EXCEPT !.cur = to]
            IN IF isFinalState(m6.states[to])
               THEN [m6 EXCEPT !.final = <<event>>]
               ELSE m6

\* Mutant of executeStateTransition: entering a final state drops the pending
\* events
executeStateTransition_ClearsQueueOnFinal(m, transitionData, event, plan, guardResult) ==
    LET from == m.cur
        to == transitionData.state
        m1 == IF transitionData.guard
              THEN Invoke(m, "guard", <<event, from, to>>, guardResult, plan)
              ELSE m
    IN IF transitionData.guard /\ ~guardResult THEN m1
       ELSE IF from \notin DOMAIN m1.states THEN m1
       ELSE LET currentStateData == m1.states[from]
                m2 == IF currentStateData.exitAction
                      THEN Invoke(m1, "exitAction", <<event, from, to>>, TRUE, plan)
                      ELSE m1
                m3 == IF transitionData.action
                      THEN Invoke(m2, "action", <<event, from, to>>, TRUE, plan)
                      ELSE m2
                m4 == IF to \in DOMAIN m3.states THEN m3
                      ELSE [m3 EXCEPT !.states = MapPut(m3.states, to, EmptyStateData)]
                nextStateData == m4.states[to]
                m5 == IF nextStateData.entryAction
                      THEN Invoke(m4, "entryAction", <<event, to, from>>, TRUE, plan)
                      ELSE m4
                m6 == [m5 EXCEPT !.cur = to]
            IN IF isFinalState(nextStateData)
               THEN stopInternal([m6 EXCEPT !.final = <<event>>, !.queue = <<>>]).m
               ELSE m6

\* Mutant of executeStateTransition: a transition to the current state skips
\* the exit and entry actions, as an internal transition does
executeStateTransition_SelfIsInternal(m, transitionData, event, plan, guardResult) ==
    LET from == m.cur
        to == transitionData.state
        m1 == IF transitionData.guard
              THEN Invoke(m, "guard", <<event, from, to>>, guardResult, plan)
              ELSE m
    IN IF transitionData.guard /\ ~guardResult THEN m1
       ELSE IF from \notin DOMAIN m1.states THEN m1
       ELSE LET currentStateData == m1.states[from]
                m2 == IF currentStateData.exitAction /\ from # to
                      THEN Invoke(m1, "exitAction", <<event, from, to>>, TRUE, plan)
                      ELSE m1
                m3 == IF transitionData.action
                      THEN Invoke(m2, "action", <<event, from, to>>, TRUE, plan)
                      ELSE m2
                m4 == IF to \in DOMAIN m3.states THEN m3
                      ELSE [m3 EXCEPT !.states = MapPut(m3.states, to, EmptyStateData)]
                nextStateData == m4.states[to]
                m5 == IF nextStateData.entryAction /\ from # to
                      THEN Invoke(m4, "entryAction", <<event, to, from>>, TRUE, plan)
                      ELSE m4
                m6 == [m5 EXCEPT !.cur = to]
            IN IF isFinalState(nextStateData)
               THEN stopInternal([m6 EXCEPT !.final = <<event>>]).m
               ELSE m6

\* StateMachine::executeStateTransition; guardResult is the value the guard
\* returns if it is set
executeStateTransition(m, transitionData, event, plan, guardResult) ==
    LET from == m.cur
        to == transitionData.state
        m1 == IF transitionData.guard
              THEN Invoke(m, "guard", <<event, from, to>>, guardResult, plan)
              ELSE m
    IN IF transitionData.guard /\ ~guardResult THEN m1
       ELSE IF from \notin DOMAIN m1.states THEN m1
       ELSE LET currentStateData == m1.states[from]
                m2 == IF currentStateData.exitAction
                      THEN Invoke(m1, "exitAction", <<event, from, to>>, TRUE, plan)
                      ELSE m1
                m3 == IF transitionData.action
                      THEN Invoke(m2, "action", <<event, from, to>>, TRUE, plan)
                      ELSE m2
                \* m_states[transitionData.state]: operator[] inserts a missing key
                m4 == IF to \in DOMAIN m3.states THEN m3
                      ELSE [m3 EXCEPT !.states = MapPut(m3.states, to, EmptyStateData)]
                nextStateData == m4.states[to]
                m5 == IF nextStateData.entryAction
                      THEN Invoke(m4, "entryAction", <<event, to, from>>, TRUE, plan)
                      ELSE m4
                m6 == [m5 EXCEPT !.cur = to]
            IN IF isFinalState(nextStateData)
               THEN stopInternal([m6 EXCEPT !.final = <<event>>]).m
               ELSE m6

\* Mutant of executeInternalTransition: the action runs although the guard
\* returned false
executeInternalTransition_IgnoresGuard(m, transitionData, event, plan, guardResult) ==
    LET m1 == IF transitionData.guard
              THEN Invoke(m, "internalGuard", <<event, m.cur>>, guardResult, plan)
              ELSE m
    IN Invoke(m1, "internalAction", <<event, m1.cur>>, TRUE, plan)

\* Mutant of executeInternalTransition: the exit action of the current state
\* runs before the action, as in a state transition to the same state
executeInternalTransition_RunsExitAction(m, transitionData, event, plan, guardResult) ==
    LET m1 == IF transitionData.guard
              THEN Invoke(m, "internalGuard", <<event, m.cur>>, guardResult, plan)
              ELSE m
    IN IF transitionData.guard /\ ~guardResult THEN m1
       ELSE LET m2 == IF m1.cur \in DOMAIN m1.states /\ m1.states[m1.cur].exitAction
                      THEN Invoke(m1, "exitAction", <<event, m1.cur, m1.cur>>, TRUE, plan)
                      ELSE m1
            IN Invoke(m2, "internalAction", <<event, m2.cur>>, TRUE, plan)

\* StateMachine::executeInternalTransition
executeInternalTransition(m, transitionData, event, plan, guardResult) ==
    LET m1 == IF transitionData.guard
              THEN Invoke(m, "internalGuard", <<event, m.cur>>, guardResult, plan)
              ELSE m
    IN IF transitionData.guard /\ ~guardResult THEN m1
       ELSE Invoke(m1, "internalAction", <<event, m1.cur>>, TRUE, plan)

\* -------------------------------------------------------- public methods

\* Mutant of validate: final states are not checked for an exit action
validate_IgnoresExitAction(m) ==
    IF m.started THEN Result(m, FALSE)
    ELSE IF DOMAIN m.states = {} THEN Result([m EXCEPT !.status = "Invalid"], FALSE)
    ELSE IF m.initial.state = "" THEN Result([m EXCEPT !.status = "Invalid"], FALSE)
    ELSE LET availableStates == DOMAIN m.states
             statesReached == traverseStates(m.states, m.initial.state, {})
         IN IF statesReached # availableStates
            THEN Result([m EXCEPT !.status = "Invalid"], FALSE)
            ELSE Result([m EXCEPT !.status = "Valid"], TRUE)

\* Mutant of validate: a machine without states is refused but not marked Invalid
validate_SilentOnNoStates(m) ==
    IF m.started THEN Result(m, FALSE)
    ELSE IF DOMAIN m.states = {} THEN Result(m, FALSE)
    ELSE IF m.initial.state = "" THEN Result([m EXCEPT !.status = "Invalid"], FALSE)
    ELSE IF \E stateName \in DOMAIN m.states :
                isFinalState(m.states[stateName]) /\ m.states[stateName].exitAction
         THEN Result([m EXCEPT !.status = "Invalid"], FALSE)
    ELSE LET availableStates == DOMAIN m.states
             statesReached == traverseStates(m.states, m.initial.state, {})
         IN IF statesReached # availableStates
            THEN Result([m EXCEPT !.status = "Invalid"], FALSE)
            ELSE Result([m EXCEPT !.status = "Valid"], TRUE)

\* Mutant of validate: a refused validation of a started machine invalidates it
validate_InvalidatesStarted(m) ==
    IF m.started THEN Result([m EXCEPT !.status = "Invalid"], FALSE)
    ELSE IF DOMAIN m.states = {} THEN Result([m EXCEPT !.status = "Invalid"], FALSE)
    ELSE IF m.initial.state = "" THEN Result([m EXCEPT !.status = "Invalid"], FALSE)
    ELSE IF \E stateName \in DOMAIN m.states :
                isFinalState(m.states[stateName]) /\ m.states[stateName].exitAction
         THEN Result([m EXCEPT !.status = "Invalid"], FALSE)
    ELSE LET availableStates == DOMAIN m.states
             statesReached == traverseStates(m.states, m.initial.state, {})
         IN IF statesReached # availableStates
            THEN Result([m EXCEPT !.status = "Invalid"], FALSE)
            ELSE Result([m EXCEPT !.status = "Valid"], TRUE)

\* StateMachine::validate
validate(m) ==
    IF m.started THEN Result(m, FALSE)
    ELSE IF DOMAIN m.states = {} THEN Result([m EXCEPT !.status = "Invalid"], FALSE)
    ELSE IF m.initial.state = "" THEN Result([m EXCEPT !.status = "Invalid"], FALSE)
    ELSE IF \E stateName \in DOMAIN m.states :
                isFinalState(m.states[stateName]) /\ m.states[stateName].exitAction
         THEN Result([m EXCEPT !.status = "Invalid"], FALSE)
    ELSE LET availableStates == DOMAIN m.states
             statesReached == traverseStates(m.states, m.initial.state, {})
         IN IF statesReached # availableStates
            THEN Result([m EXCEPT !.status = "Invalid"], FALSE)
            ELSE Result([m EXCEPT !.status = "Valid"], TRUE)

\* Mutant of start: the check of the started flag is missing
start_NoStartedCheck(m, event, plan) ==
    IF event = "" THEN Result(m, FALSE)
    ELSE IF m.status # "Valid" THEN Result(m, FALSE)
    ELSE LET m1 == [m EXCEPT !.queue = <<>>, !.cur = "", !.final = <<>>,
                             !.started = TRUE]
         IN Result(executeInitialTransition(m1, event, plan), TRUE)

\* Mutant of start: the event queue is not cleared
start_KeepsQueue(m, event, plan) ==
    IF event = "" THEN Result(m, FALSE)
    ELSE IF m.started THEN Result(m, FALSE)
    ELSE IF m.status # "Valid" THEN Result(m, FALSE)
    ELSE LET m1 == [m EXCEPT !.cur = "", !.final = <<>>, !.started = TRUE]
         IN Result(executeInitialTransition(m1, event, plan), TRUE)

\* Mutant of start: the final event of the previous run is not reset
start_KeepsFinalEvent(m, event, plan) ==
    IF event = "" THEN Result(m, FALSE)
    ELSE IF m.started THEN Result(m, FALSE)
    ELSE IF m.status # "Valid" THEN Result(m, FALSE)
    ELSE LET m1 == [m EXCEPT !.queue = <<>>, !.cur = "", !.started = TRUE]
             m2 == executeInitialTransition(m1, event, plan)
         IN Result(IF m2.started THEN [m2 EXCEPT !.final = m.final] ELSE m2, TRUE)

\* Mutant of start: the check of the validation status is missing
start_NoValidationCheck(m, event, plan) ==
    IF event = "" THEN Result(m, FALSE)
    ELSE IF m.started THEN Result(m, FALSE)
    ELSE LET m1 == [m EXCEPT !.queue = <<>>, !.cur = "", !.final = <<>>,
                             !.started = TRUE]
         IN Result(executeInitialTransition(m1, event, plan), TRUE)

\* StateMachine::start(Event &&)
start(m, event, plan) ==
    IF event = "" THEN Result(m, FALSE)
    ELSE IF m.started THEN Result(m, FALSE)
    ELSE IF m.status # "Valid" THEN Result(m, FALSE)
    ELSE LET m1 == [m EXCEPT !.queue = <<>>, !.cur = "", !.final = <<>>,
                             !.started = TRUE]
         IN Result(executeInitialTransition(m1, event, plan), TRUE)

\* StateMachine::stop
stop(m) == stopInternal(m)

\* Mutant of finalStateReached: only the transitions keyed by an event name
\* are looked at
finalStateReached_IgnoresDefaults(m) ==
    IF m.cur \notin DOMAIN m.states THEN Result(m, FALSE)
    ELSE Result(m, /\ DOMAIN m.states[m.cur].stateTransitions = {}
                   /\ DOMAIN m.states[m.cur].internalTransitions = {})

\* StateMachine::finalStateReached
finalStateReached(m) ==
    IF m.cur \notin DOMAIN m.states THEN Result(m, FALSE)
    ELSE Result(m, isFinalState(m.states[m.cur]))

\* Mutant of takeFinalEvent: the final event is copied out, not moved out
takeFinalEvent_KeepsEvent(m) == Result(m, m.final)

\* StateMachine::takeFinalEvent: the result carries the moved-out pointer
takeFinalEvent(m) == Result([m EXCEPT !.final = <<>>], m.final)

\* Mutant of processNextEvent: the event is taken from the back of the queue
processNextEvent_TakesBack(m, plan, guardResult) ==
    LET Out(mm, ret, ev, branch) == [m |-> mm, ret |-> ret, ev |-> ev, branch |-> branch]
    IN
    IF ~m.started THEN Out(m, FALSE, "", "-")
    ELSE IF m.queue = <<>> THEN Out(m, FALSE, "", "-")
    ELSE LET event == m.queue[Len(m.queue)]
             m1 == [m EXCEPT !.queue = SubSeq(m.queue, 1, Len(m.queue) - 1)]
         IN IF m1.cur \notin DOMAIN m1.states THEN Out(m1, FALSE, event, "invalid")
            ELSE LET stateData == m1.states[m1.cur]
                 IN IF event \in DOMAIN stateData.internalTransitions
                    THEN Out(executeInternalTransition(
                                 m1, stateData.internalTransitions[event], event,
                                 plan, guardResult),
                             TRUE, event, "internal")
                    ELSE IF event \in DOMAIN stateData.stateTransitions
                    THEN Out(executeStateTransition(
                                 m1, stateData.stateTransitions[event], event,
                                 plan, guardResult),
                             TRUE, event, "state")
                    ELSE IF stateData.defaultInternalTransition # <<>>
                    THEN Out(executeInternalTransition(
                                 m1, stateData.defaultInternalTransition[1], event,
                                 plan, guardResult),
                             TRUE, event, "defaultInternal")
                    ELSE IF stateData.defaultStateTransition # <<>>
                    THEN Out(executeStateTransition(
                                 m1, stateData.defaultStateTransition[1], event,
                                 plan, guardResult),
                             TRUE, event, "defaultState")
                    ELSE Out(m1, TRUE, event, "ignored")

\* Mutant of processNextEvent: the default internal transition is tried
\* before the state transition keyed by the event name
processNextEvent_DefaultFirst(m, plan, guardResult) ==
    LET Out(mm, ret, ev, branch) == [m |-> mm, ret |-> ret, ev |-> ev, branch |-> branch]
    IN
    IF ~m.started THEN Out(m, FALSE, "", "-")
    ELSE IF m.queue = <<>> THEN Out(m, FALSE, "", "-")
    ELSE LET event == Head(m.queue)
             m1 == [m EXCEPT !.queue = Tail(m.queue)]
         IN IF m1.cur \notin DOMAIN m1.states THEN Out(m1, FALSE, event, "invalid")
            ELSE LET stateData == m1.states[m1.cur]
                 IN IF event \in DOMAIN stateData.internalTransitions
                    THEN Out(executeInternalTransition(
                                 m1, stateData.internalTransitions[event], event,
                                 plan, guardResult),
                             TRUE, event, "internal")
                    ELSE IF stateData.defaultInternalTransition # <<>>
                    THEN Out(executeInternalTransition(
                                 m1, stateData.defaultInternalTransition[1], event,
                                 plan, guardResult),
                             TRUE, event, "defaultInternal")
                    ELSE IF event \in DOMAIN stateData.stateTransitions
                    THEN Out(executeStateTransition(
                                 m1, stateData.stateTransitions[event], event,
                                 plan, guardResult),
                             TRUE, event, "state")
                    ELSE IF stateData.defaultStateTransition # <<>>
                    THEN Out(executeStateTransition(
                                 m1, stateData.defaultStateTransition[1], event,
                                 plan, guardResult),
                             TRUE, event, "defaultState")
                    ELSE Out(m1, TRUE, event, "ignored")

\* Mutant of processNextEvent: when the guard of the transition keyed by the
\* event name returns false, the default transition of the state is executed
processNextEvent_FallsBackToDefault(m, plan, guardResult) ==
    LET Out(mm, ret, ev, branch) == [m |-> mm, ret |-> ret, ev |-> ev, branch |-> branch]
        Fallback(mm, stateData, event, blocked) ==
            IF ~blocked THEN mm
            ELSE IF stateData.defaultInternalTransition # <<>>
            THEN executeInternalTransition(mm, stateData.defaultInternalTransition[1],
                                           event, plan, TRUE)
            ELSE IF stateData.defaultStateTransition # <<>>
            THEN executeStateTransition(mm, stateData.defaultStateTransition[1],
                                        event, plan, TRUE)
            ELSE mm
    IN
    IF ~m.started THEN Out(m, FALSE, "", "-")
    ELSE IF m.queue = <<>> THEN Out(m, FALSE, "", "-")
    ELSE LET event == Head(m.queue)
             m1 == [m EXCEPT !.queue = Tail(m.queue)]
         IN IF m1.cur \notin DOMAIN m1.states THEN Out(m1, FALSE, event, "invalid")
            ELSE LET stateData == m1.states[m1.cur]
                 IN IF event \in DOMAIN stateData.internalTransitions
                    THEN Out(Fallback(executeInternalTransition(
                                          m1, stateData.internalTransitions[event], event,
                                          plan, guardResult),
                                      stateData, event,
                                      stateData.internalTransitions[event].guard /\ ~guardResult),
                             TRUE, event, "internal")
                    ELSE IF event \in DOMAIN stateData.stateTransitions
                    THEN Out(Fallback(executeStateTransition(
                                          m1, stateData.stateTransitions[event], event,
                                          plan, guardResult),
                                      stateData, event,
                                      stateData.stateTransitions[event].guard /\ ~guardResult),
                             TRUE, event, "state")
                    ELSE IF stateData.defaultInternalTransition # <<>>
                    THEN Out(executeInternalTransition(
                                 m1, stateData.defaultInternalTransition[1], event,
                                 plan, guardResult),
                             TRUE, event, "defaultInternal")
                    ELSE IF stateData.defaultStateTransition # <<>>
                    THEN Out(executeStateTransition(
                                 m1, stateData.defaultStateTransition[1], event,
                                 plan, guardResult),
                             TRUE, event, "defaultState")
                    ELSE Out(m1, TRUE, event, "ignored")

\* StateMachine::processNextEvent; the result also names the dequeued event
\* and the branch that handled it
processNextEvent(m, plan, guardResult) ==
    LET Out(mm, ret, ev, branch) == [m |-> mm, ret |-> ret, ev |-> ev, branch |-> branch]
    IN
    IF ~m.started THEN Out(m, FALSE, "", "-")
    ELSE IF m.queue = <<>> THEN Out(m, FALSE, "", "-")
    ELSE LET event == Head(m.queue)
             m1 == [m EXCEPT !.queue = Tail(m.queue)]
         IN IF m1.cur \notin DOMAIN m1.states THEN Out(m1, FALSE, event, "invalid")
            ELSE LET stateData == m1.states[m1.cur]
                 IN IF /\ DOMAIN stateData.internalTransitions # {}
                       /\ event \in DOMAIN stateData.internalTransitions
                    THEN Out(executeInternalTransition(
                                 m1, stateData.internalTransitions[event], event,
                                 plan, guardResult),
                             TRUE, event, "internal")
                    ELSE IF /\ DOMAIN stateData.stateTransitions # {}
                            /\ event \in DOMAIN stateData.stateTransitions
                    THEN Out(executeStateTransition(
                                 m1, stateData.stateTransitions[event], event,
                                 plan, guardResult),
                             TRUE, event, "state")
                    ELSE IF stateData.defaultInternalTransition # <<>>
                    THEN Out(executeInternalTransition(
                                 m1, stateData.defaultInternalTransition[1], event,
                                 plan, guardResult),
                             TRUE, event, "defaultInternal")
                    ELSE IF stateData.defaultStateTransition # <<>>
                    THEN Out(executeStateTransition(
                                 m1, stateData.defaultStateTransition[1], event,
                                 plan, guardResult),
                             TRUE, event, "defaultState")
                    ELSE Out(m1, TRUE, event, "ignored")

\* StateMachine::addState
addState(m, stateName) ==
    IF m.started THEN Result(m, FALSE)
    ELSE IF stateName = "" THEN Result(m, FALSE)
    ELSE IF stateName \in DOMAIN m.states THEN Result(m, FALSE)
    ELSE Result([m EXCEPT !.states = MapPut(m.states, stateName, EmptyStateData),
                          !.status = "Unvalidated"], TRUE)

\* StateMachine::setStateEntryAction
setStateEntryAction(m, stateName, entryAction) ==
    IF m.started THEN Result(m, FALSE)
    ELSE IF ~entryAction THEN Result(m, FALSE)
    ELSE IF stateName \notin DOMAIN m.states THEN Result(m, FALSE)
    ELSE IF m.states[stateName].entryAction THEN Result(m, FALSE)
    ELSE Result([m EXCEPT !.states[stateName].entryAction = entryAction,
                          !.status = "Unvalidated"], TRUE)

\* Mutant of setStateExitAction: the validation status is not reset
setStateExitAction_KeepsStatus(m, stateName, exitAction) ==
    IF m.started THEN Result(m, FALSE)
    ELSE IF ~exitAction THEN Result(m, FALSE)
    ELSE IF stateName \notin DOMAIN m.states THEN Result(m, FALSE)
    ELSE IF m.states[stateName].exitAction THEN Result(m, FALSE)
    ELSE Result([m EXCEPT !.states[stateName].exitAction = exitAction], TRUE)

\* StateMachine::setStateExitAction
setStateExitAction(m, stateName, exitAction) ==
    IF m.started THEN Result(m, FALSE)
    ELSE IF ~exitAction THEN Result(m, FALSE)
    ELSE IF stateName \notin DOMAIN m.states THEN Result(m, FALSE)
    ELSE IF m.states[stateName].exitAction THEN Result(m, FALSE)
    ELSE Result([m EXCEPT !.states[stateName].exitAction = exitAction,
                          !.status = "Unvalidated"], TRUE)

\* Mutant of setInitialTransition: the state is not checked to exist
setInitialTransition_AcceptsUndeclared(m, initialState, action) ==
    IF m.initial.state # "" THEN Result(m, FALSE)
    ELSE Result([m EXCEPT !.initial = [state |-> initialState, action |-> action],
                          !.status = "Unvalidated"], TRUE)

\* Mutant of setInitialTransition: an initial transition already set is replaced
setInitialTransition_Overwrites(m, initialState, action) ==
    IF initialState \notin DOMAIN m.states THEN Result(m, FALSE)
    ELSE Result([m EXCEPT !.initial = [state |-> initialState, action |-> action],
                          !.status = "Unvalidated"], TRUE)

\* StateMachine::setInitialTransition
setInitialTransition(m, initialState, action) ==
    IF m.initial.state # "" THEN Result(m, FALSE)
    ELSE IF initialState \notin DOMAIN m.states THEN Result(m, FALSE)
    ELSE Result([m EXCEPT !.initial = [state |-> initialState, action |-> action],
                          !.status = "Unvalidated"], TRUE)

\* Mutant of addStateTransition: the validation status is not reset
addStateTransition_KeepsStatus(m, fromState, trigger, toState, action, guard) ==
    IF m.started THEN Result(m, FALSE)
    ELSE IF fromState \notin DOMAIN m.states THEN Result(m, FALSE)
    ELSE IF trigger = "" THEN Result(m, FALSE)
    ELSE IF toState \notin DOMAIN m.states THEN Result(m, FALSE)
    ELSE LET stateData == m.states[fromState]
         IN IF \/ trigger \in DOMAIN stateData.stateTransitions
               \/ trigger \in DOMAIN stateData.internalTransitions
            THEN Result(m, FALSE)
            ELSE Result([m EXCEPT
                    !.states[fromState].stateTransitions =
                        MapPut(stateData.stateTransitions, trigger,
                               [state |-> toState, guard |-> guard, action |-> action])],
                    TRUE)

\* StateMachine::addStateTransition
addStateTransition(m, fromState, trigger, toState, action, guard) ==
    IF m.started THEN Result(m, FALSE)
    ELSE IF fromState \notin DOMAIN m.states THEN Result(m, FALSE)
    ELSE IF trigger = "" THEN Result(m, FALSE)
    ELSE IF toState \notin DOMAIN m.states THEN Result(m, FALSE)
    ELSE LET stateData == m.states[fromState]
         IN IF \/ trigger \in DOMAIN stateData.stateTransitions
               \/ trigger \in DOMAIN stateData.internalTransitions
            THEN Result(m, FALSE)
            ELSE Result([m EXCEPT
                    !.states[fromState].stateTransitions =
                        MapPut(stateData.stateTransitions, trigger,
                               [state |-> toState, guard |-> guard, action |-> action]),
                    !.status = "Unvalidated"], TRUE)

\* Mutant of addInternalTransition: only the internal transitions of the state
\* are searched for the trigger
addInternalTransition_IgnoresStateTransitions(m, state, trigger, action, guard) ==
    IF m.started THEN Result(m, FALSE)
    ELSE IF state \notin DOMAIN m.states THEN Result(m, FALSE)
    ELSE IF trigger = "" THEN Result(m, FALSE)
    ELSE IF ~action THEN Result(m, FALSE)
    ELSE LET stateData == m.states[state]
         IN IF trigger \in DOMAIN stateData.internalTransitions
            THEN Result(m, FALSE)
            ELSE Result([m EXCEPT
                    !.states[state].internalTransitions =
                        MapPut(stateData.internalTransitions, trigger,
                               [guard |-> guard, action |-> action]),
                    !.status = "Unvalidated"], TRUE)

\* StateMachine::addInternalTransition
addInternalTransition(m, state, trigger, action, guard) ==
    IF m.started THEN Result(m, FALSE)
    ELSE IF state \notin DOMAIN m.states THEN Result(m, FALSE)
    ELSE IF trigger = "" THEN Result(m, FALSE)
    ELSE IF ~action THEN Result(m, FALSE)
    ELSE LET stateData == m.states[state]
         IN IF \/ trigger \in DOMAIN stateData.stateTransitions
               \/ trigger \in DOMAIN stateData.internalTransitions
            THEN Result(m, FALSE)
            ELSE Result([m EXCEPT
                    !.states[state].internalTransitions =
                        MapPut(stateData.internalTransitions, trigger,
                               [guard |-> guard, action |-> action]),
                    !.status = "Unvalidated"], TRUE)

\* StateMachine::setDefaultTransition (state transition)
setDefaultStateTransition(m, fromState, toState, action, guard) ==
    IF m.started THEN Result(m, FALSE)
    ELSE IF fromState \notin DOMAIN m.states THEN Result(m, FALSE)
    ELSE IF toState \notin DOMAIN m.states THEN Result(m, FALSE)
    ELSE LET stateData == m.states[fromState]
         IN IF \/ stateData.defaultStateTransition # <<>>
               \/ stateData.defaultInternalTransition # <<>>
            THEN Result(m, FALSE)
            ELSE Result([m EXCEPT
                    !.states[fromState].defaultStateTransition =
                        <<[state |-> toState, guard |-> guard, action |-> action]>>,
                    !.status = "Unvalidated"], TRUE)

\* Mutant of setDefaultTransition (internal transition): only the default
\* internal transition of the state is checked
setDefaultInternalTransition_IgnoresStateDefault(m, state, action, guard) ==
    IF m.started THEN Result(m, FALSE)
    ELSE IF state \notin DOMAIN m.states THEN Result(m, FALSE)
    ELSE IF ~action THEN Result(m, FALSE)
    ELSE LET stateData == m.states[state]
         IN IF stateData.defaultInternalTransition # <<>>
            THEN Result(m, FALSE)
            ELSE Result([m EXCEPT
                    !.states[state].defaultInternalTransition =
                        <<[guard |-> guard, action |-> action]>>,
                    !.status = "Unvalidated"], TRUE)

\* StateMachine::setDefaultTransition (internal transition)
setDefaultInternalTransition(m, state, action, guard) ==
    IF m.started THEN Result(m, FALSE)
    ELSE IF state \notin DOMAIN m.states THEN Result(m, FALSE)
    ELSE IF ~action THEN Result(m, FALSE)
    ELSE LET stateData == m.states[state]
         IN IF \/ stateData.defaultStateTransition # <<>>
               \/ stateData.defaultInternalTransition # <<>>
            THEN Result(m, FALSE)
            ELSE Result([m EXCEPT
                    !.states[state].defaultInternalTransition =
                        <<[guard |-> guard, action |-> action]>>,
                    !.status = "Unvalidated"], TRUE)

\* ------------------------------------------------------------------ inputs

NameInputs == StateNames \cup {""}
EventInputs == EventNames \cup {""}
TriggerInputs == TriggerNames \cup {""}

\* One enqueue call made by the at-th of the n callbacks of a public call
PlanItems(n) == [at : 1..n, front : BOOLEAN, ev : EventInputs]

\* What the n callbacks of one public call do on the machine: at most k
\* enqueue calls, listed in the order in which they are made
Plans(n, k) ==
    UNION { {p \in [1..j -> PlanItems(n)] : \A i \in 1..(j - 1) : p[i].at <= p[i + 1].at} :
            j \in 0..k }

Min(x, y) == IF x <= y THEN x ELSE y

\* ----------------------------------------------------------------- actions

Validate ==
    \E r \in {validate(Machine)} :
       Commit(r.m, Return("validate", "", r.ret, "-"))

Start ==
    \E event \in {"", StartedEvent} :
    \E plan \in Plans(Len(start(Machine, event, <<>>).m.calls),
                      Min(MaxCallbackAdds, MaxQueue)) :
        \E r \in {start(Machine, event, plan)} :
           Commit(r.m, Return("start", event, r.ret, "-"))

Stop ==
    \E r \in {stop(Machine)} :
       Commit(r.m, Return("stop", "", r.ret, "-"))

TakeFinalEvent ==
    \E r \in {takeFinalEvent(Machine)} :
       Commit(r.m, Return("takeFinalEvent",
                          IF r.ret = <<>> THEN "" ELSE r.ret[1], r.ret # <<>>, "-"))

FinalStateReached ==
    \E r \in {finalStateReached(Machine)} :
       Commit(r.m, Return("finalStateReached", "", r.ret, "-"))

AddEventToFront ==
    \E event \in EventInputs :
        \E r \in {addEventToFront(Machine, event)} :
           /\ Len(r.m.queue) <= MaxQueue
           /\ Commit(r.m, Return("addEventToFront", event, r.ret, "-"))

AddEventToBack ==
    \E event \in EventInputs :
        \E r \in {addEventToBack(Machine, event)} :
           /\ Len(r.m.queue) <= MaxQueue
           /\ Commit(r.m, Return("addEventToBack", event, r.ret, "-"))

ProcessNextEvent ==
    \E guardResult \in BOOLEAN :
    \E plan \in Plans(Len(processNextEvent(Machine, <<>>, guardResult).m.calls),
                      Min(MaxCallbackAdds, MaxQueue + 1 - Len(m_eventQueue))) :
        \E r \in {processNextEvent(Machine, plan, guardResult)} :
           Commit(r.m, Return("processNextEvent", r.ev, r.ret, r.branch))

\* The number of configuration items registered on the machine
ConfigSize(m) ==
    LET Items(d) ==
            1 + (IF d.entryAction THEN 1 ELSE 0) + (IF d.exitAction THEN 1 ELSE 0)
              + Cardinality(DOMAIN d.stateTransitions)
              + Cardinality(DOMAIN d.internalTransitions)
              + Len(d.defaultStateTransition) + Len(d.defaultInternalTransition)
        RECURSIVE Sum(_)
        Sum(S) == IF S = {} THEN 0
                  ELSE LET x == CHOOSE y \in S : TRUE
                       IN Items(m.states[x]) + Sum(S \ {x})
    IN Sum(DOMAIN m.states) + (IF m.initial.state # "" THEN 1 ELSE 0)

AddState ==
    \E stateName \in NameInputs :
        \E r \in {addState(Machine, stateName)} :
           /\ ConfigSize(r.m) <= MaxConfig
           /\ Commit(r.m, ConfigReturn("addState", <<stateName>>, r.ret))

SetStateEntryAction ==
    \E stateName \in NameInputs, entryAction \in BOOLEAN :
        \E r \in {setStateEntryAction(Machine, stateName, entryAction)} :
           /\ ConfigSize(r.m) <= MaxConfig
           /\ Commit(r.m, ConfigReturn("setStateEntryAction", <<stateName>>, r.ret))

SetStateExitAction ==
    \E stateName \in NameInputs, exitAction \in BOOLEAN :
        \E r \in {setStateExitAction(Machine, stateName, exitAction)} :
           /\ ConfigSize(r.m) <= MaxConfig
           /\ Commit(r.m, ConfigReturn("setStateExitAction", <<stateName>>, r.ret))

SetInitialTransition ==
    \E initialState \in NameInputs, action \in BOOLEAN :
        \E r \in {setInitialTransition(Machine, initialState, action)} :
           /\ ConfigSize(r.m) <= MaxConfig
           /\ Commit(r.m, ConfigReturn("setInitialTransition", <<initialState>>, r.ret))

AddStateTransition ==
    \E fromState \in NameInputs, trigger \in TriggerInputs, toState \in NameInputs,
       action \in BOOLEAN, guard \in BOOLEAN :
        \E r \in {addStateTransition(Machine, fromState, trigger, toState, action, guard)} :
           /\ ConfigSize(r.m) <= MaxConfig
           /\ Commit(r.m, ConfigReturn("addStateTransition",
                                    <<fromState, trigger, toState>>, r.ret))

AddInternalTransition ==
    \E state \in NameInputs, trigger \in TriggerInputs,
       action \in BOOLEAN, guard \in BOOLEAN :
        \E r \in {addInternalTransition(Machine, state, trigger, action, guard)} :
           /\ ConfigSize(r.m) <= MaxConfig
           /\ Commit(r.m, ConfigReturn("addInternalTransition", <<state, trigger>>, r.ret))

SetDefaultStateTransition ==
    \E fromState \in NameInputs, toState \in NameInputs,
       action \in BOOLEAN, guard \in BOOLEAN :
        \E r \in {setDefaultStateTransition(Machine, fromState, toState, action, guard)} :
           /\ ConfigSize(r.m) <= MaxConfig
           /\ Commit(r.m, ConfigReturn("setDefaultTransition(state)",
                                    <<fromState, toState>>, r.ret))

SetDefaultInternalTransition ==
    \E state \in NameInputs, action \in BOOLEAN, guard \in BOOLEAN :
        \E r \in {setDefaultInternalTransition(Machine, state, action, guard)} :
           /\ ConfigSize(r.m) <= MaxConfig
           /\ Commit(r.m, ConfigReturn("setDefaultTransition(internal)", <<state>>, r.ret))

Next ==
    \/ Validate
    \/ Start
    \/ Stop
    \/ FinalStateReached
    \/ TakeFinalEvent
    \/ AddEventToFront
    \/ AddEventToBack
    \/ ProcessNextEvent
    \/ AddState
    \/ SetStateEntryAction
    \/ SetStateExitAction
    \/ SetInitialTransition
    \/ AddStateTransition
    \/ AddInternalTransition
    \/ SetDefaultStateTransition
    \/ SetDefaultInternalTransition

Spec == Init /\ [][Next]_vars

\* ------------------------------------------------ configuring the machine

\* The client configures, validates, starts and stops the machine
NextConfig ==
    \/ Validate
    \/ Start
    \/ Stop
    \/ FinalStateReached
    \/ AddState
    \/ SetStateEntryAction
    \/ SetStateExitAction
    \/ SetInitialTransition
    \/ AddStateTransition
    \/ AddInternalTransition
    \/ SetDefaultStateTransition
    \/ SetDefaultInternalTransition

SpecConfig == Init /\ [][NextConfig]_vars

\* ------------------------------------------- runs of a configured machine

\* Callbacks a client may set; a profile is the set of kinds it does set
CallbackKinds == {"guard", "exitAction", "action", "entryAction"}

\* What a client registers for one (state, trigger) or as a state's default:
\* nothing, an internal transition, or a state transition to the named state
SlotKinds == {"none", "internal"} \cup StateNames

\* The client's configuration calls, as the choices that decide them
ConfigChoices ==
    [second : BOOLEAN, onEvent : SlotKinds, onDefault : SlotKinds,
     back : {"none", "a"}, callbacks : SUBSET CallbackKinds]

\* The machine as constructed by StateMachine::StateMachine()
Constructed ==
    [states |-> <<>>, initial |-> [state |-> "", action |-> FALSE],
     status |-> "Unvalidated", started |-> FALSE, cur |-> "", queue |-> <<>>,
     final |-> <<>>, calls |-> <<>>]

\* Registers one slot of a state through the public configuration methods
ConfigureSlot(m, state, trigger, kind, cbs) ==
    IF kind = "none" THEN m
    ELSE IF kind = "internal"
    THEN IF trigger = ""
         THEN setDefaultInternalTransition(m, state, TRUE, "guard" \in cbs).m
         ELSE addInternalTransition(m, state, trigger, TRUE, "guard" \in cbs).m
    ELSE IF trigger = ""
         THEN setDefaultStateTransition(m, state, kind, "action" \in cbs, "guard" \in cbs).m
         ELSE addStateTransition(m, state, trigger, kind, "action" \in cbs, "guard" \in cbs).m

\* Sets the entry action of a state, and its exit action if it has a transition
ConfigureActions(m, state, cbs) ==
    LET m1 == IF "entryAction" \in cbs THEN setStateEntryAction(m, state, TRUE).m ELSE m
    IN IF "exitAction" \in cbs /\ state \in DOMAIN m1.states /\ ~isFinalState(m1.states[state])
       THEN setStateExitAction(m1, state, TRUE).m
       ELSE m1

\* The machine after the client's configuration calls
Configure(c) ==
    LET m1 == addState(Constructed, "a").m
        m2 == IF c.second THEN addState(m1, "b").m ELSE m1
        m3 == ConfigureSlot(m2, "a", "e", c.onEvent, c.callbacks)
        m4 == ConfigureSlot(m3, "a", "", c.onDefault, c.callbacks)
        m5 == ConfigureSlot(m4, "b", "e", c.back, c.callbacks)
        m6 == ConfigureActions(m5, "a", c.callbacks)
        m7 == ConfigureActions(m6, "b", c.callbacks)
    IN setInitialTransition(m7, "a", "action" \in c.callbacks).m

InitRun ==
    \E c \in ConfigChoices :
        /\ m_states = Configure(c).states
        /\ m_initialTransition = Configure(c).initial
        /\ m_validationStatus = Configure(c).status
        /\ m_started = FALSE
        /\ m_currentState = ""
        /\ m_eventQueue = <<>>
        /\ m_finalEvent = <<>>
        /\ last = Return("StateMachine", "", TRUE, "-")
        /\ calls = <<>>
        /\ mutex = Unlocked
        /\ threads = Idle

NextRun ==
    \/ Validate
    \/ Start
    \/ Stop
    \/ FinalStateReached
    \/ TakeFinalEvent
    \/ AddEventToFront
    \/ AddEventToBack
    \/ ProcessNextEvent

SpecRun == InitRun /\ [][NextRun]_vars

\* ---------------------------------------------------- moving the machine

\* A move constructor that leaves the started flag at its default
moveConstruct_NotStarted(other) ==
    [states |-> other.states, initial |-> other.initial, status |-> other.status,
     started |-> FALSE, cur |-> other.cur, queue |-> other.queue,
     final |-> other.final, calls |-> <<>>]

\* StateMachine::StateMachine(StateMachine &&other): the target, whose members
\* are initialised one by one from the members of other
moveConstruct(other) ==
    [states |-> other.states, initial |-> other.initial, status |-> other.status,
     started |-> other.started, cur |-> other.cur, queue |-> other.queue,
     final |-> other.final, calls |-> <<>>]

\* A move assignment that forgets the final event
moveAssign_KeepsFinalEvent(this, other, same) ==
    IF ~same
    THEN [this EXCEPT !.states = other.states, !.initial = other.initial,
                      !.status = other.status, !.started = other.started,
                      !.cur = other.cur, !.queue = other.queue]
    ELSE this

\* StateMachine::operator=(StateMachine &&other) on the machine this; same
\* tells whether other is the machine this itself (this == &other)
moveAssign(this, other, same) ==
    IF ~same
    THEN [this EXCEPT !.states = other.states, !.initial = other.initial,
                      !.status = other.status, !.started = other.started,
                      !.cur = other.cur, !.queue = other.queue,
                      !.final = other.final]
    ELSE this

\* The two move operations, as logged
MoveOps == {"StateMachine(StateMachine &&)", "operator="}

\* StateMachine movedStateMachine(std::move(stateMachine)): from here on the
\* client uses the target
MoveConstructor ==
    \E r \in {moveConstruct(Machine)} :
       Commit(r, Return("StateMachine(StateMachine &&)", "", TRUE, "-"))

\* movedStateMachine = std::move(stateMachine): from here on the client uses
\* the target. Before, the target was the source itself, a machine as
\* constructed, a started machine with an event pending or a stopped one that
\* holds a final event
MoveAssignment ==
    \E same \in BOOLEAN :
    \E a1 \in {addState(Constructed, "a").m} :
    \E a2 \in {addState(a1, "b").m} :
    \E a3 \in {addStateTransition(a2, "a", "e", "b", FALSE, FALSE).m} :
    \E a4 \in {setInitialTransition(a3, "a", FALSE).m} :
    \E a5 \in {validate(a4).m} :
    \E a6 \in {start(a5, "", <<>>).m} :
    \E a7 \in {addEventToBack(a6, "e").m} :
    \E a8 \in {processNextEvent(a7, <<>>, TRUE).m} :
    \E this \in IF same THEN {Machine}
                        ELSE {Constructed, [a7 EXCEPT !.calls = <<>>],
                              [a8 EXCEPT !.calls = <<>>]} :
    \E r \in {moveAssign(this, Machine, same)} :
       Commit(r, Return("operator=", "", TRUE, IF same THEN "self" ELSE "-"))

NextMove ==
    \/ NextRun
    \/ MoveConstructor
    \/ MoveAssignment

SpecMove == InitRun /\ [][NextMove]_vars

\* ------------------------------------------- threads, mutexes and callbacks

\* The public methods the client threads call on the shared machine
PublicOps ==
    {"start", "stop", "processNextEvent", "addEventToFront", "addEventToBack",
     "validate", "currentState", "takeFinalEvent", "hasPendingEvents", "isStarted",
     "addState"}

\* addEventToFront() and addEventToBack()
EnqueueOps == {"addEventToFront", "addEventToBack"}

\* The first statement of a public method: the QMutexLocker it declares first
FirstPc(op) ==
    IF op \in EnqueueOps \cup {"hasPendingEvents"} THEN "lockQueue"
    ELSE IF op = "isStarted" THEN "isStarted"
    ELSE IF op = "hasFinalEvent" THEN "hasFinalEvent"
    ELSE "lockApi"

\* The QMutex a call locks at its position, "" where it locks none;
\* isStarted() and stopInternal() lock m_startedMutex for their own duration
MutexAt(pc) ==
    CASE pc = "lockApi" -> "m_apiMutex"
      [] pc = "lockQueue" -> "m_eventQueueMutex"
      [] pc \in {"lockStarted", "isStarted", "stopInternal"} -> "m_startedMutex"
      [] OTHER -> ""

\* A call of a public method: its position, its event or name argument, the
\* value it returns, the mutexes its QMutexLocker objects hold, the callbacks
\* it still has to invoke (the first one is running), the value its guard
\* returns, and the calls its callbacks made on the machine
Frame(op, ev, guardResult) ==
    [op |-> op, pc |-> FirstPc(op), ev |-> ev, ret |-> FALSE, held |-> {},
     cbs |-> <<>>, guardResult |-> guardResult, nested |-> <<>>]

\* The outcome of one step of a call
Step(m, mx, f) == [m |-> m, mx |-> mx, f |-> f]

\* QMutex::lock() by thread t
Locked(mx, name, t) == [mx EXCEPT ![name] = t]

\* QMutex::unlock() of the named mutexes
Released(mx, names) == [k \in DOMAIN mx |-> IF k \in names THEN NoThread ELSE mx[k]]

\* A QMutexLocker of the call holds the mutex until the call returns
Holding(f, name) == [f EXCEPT !.held = @ \cup {name}]

\* return ret; the QMutexLocker destructors run when the call is left
Returning(f, ret) == [f EXCEPT !.pc = "ret", !.ret = ret]

\* The call goes on to invoke the callbacks cbs, then to its last statements
WithCallbacks(f, cbs) ==
    [f EXCEPT !.cbs = cbs, !.pc = IF cbs = <<>> THEN "commit" ELSE "callback"]

\* The names of the callbacks of a callback log
CallbackNames(cs) == [i \in 1..Len(cs) |-> cs[i].cb]

\* Mutant of start() between its lock operations: m_eventQueueMutex is not
\* unlocked before the initial transition is executed
startLocked_KeepsQueueLocked(m, mx, f, t) ==
    CASE f.pc = "lockApi" ->
           Step(m, Locked(mx, "m_apiMutex", t),
                IF f.ev = "" THEN Returning(Holding(f, "m_apiMutex"), FALSE)
                ELSE [Holding(f, "m_apiMutex") EXCEPT !.pc = "lockStarted"])
      [] f.pc = "lockStarted" ->
           Step(m, Locked(mx, "m_startedMutex", t),
                IF m.started \/ m.status # "Valid"
                THEN Returning(Holding(f, "m_startedMutex"), FALSE)
                ELSE [Holding(f, "m_startedMutex") EXCEPT !.pc = "lockQueue"])
      [] f.pc = "lockQueue" ->
           Step([m EXCEPT !.queue = <<>>, !.cur = "", !.final = <<>>],
                Locked(mx, "m_eventQueueMutex", t),
                [Holding(f, "m_eventQueueMutex") EXCEPT !.pc = "setStarted"])
      [] f.pc = "setStarted" ->
           LET m1 == [m EXCEPT !.started = TRUE]
           IN Step(m1, Released(mx, {"m_startedMutex"}),
                   WithCallbacks([f EXCEPT !.held = @ \ {"m_startedMutex"}],
                                 CallbackNames(executeInitialTransition(m1, f.ev, <<>>).calls)))
      [] f.pc = "commit" ->
           LET r == executeInitialTransition(m, f.ev, <<>>)
           IN Step([r EXCEPT !.started = m.started, !.calls = <<>>], mx,
                   IF ~r.started THEN [f EXCEPT !.pc = "stopInternal"]
                   ELSE Returning(f, TRUE))
      [] f.pc = "stopInternal" ->
           Step(stopInternal(m).m, mx, Returning(f, TRUE))

\* Mutant of start() between its lock operations: the started flag is set and
\* m_startedMutex unlocked before the queue is cleared, without m_eventQueueMutex
startLocked_StartedBeforeClear(m, mx, f, t) ==
    CASE f.pc = "lockApi" ->
           Step(m, Locked(mx, "m_apiMutex", t),
                IF f.ev = "" THEN Returning(Holding(f, "m_apiMutex"), FALSE)
                ELSE [Holding(f, "m_apiMutex") EXCEPT !.pc = "lockStarted"])
      [] f.pc = "lockStarted" ->
           Step(m, Locked(mx, "m_startedMutex", t),
                IF m.started \/ m.status # "Valid"
                THEN Returning(Holding(f, "m_startedMutex"), FALSE)
                ELSE [Holding(f, "m_startedMutex") EXCEPT !.pc = "lockQueue"])
      [] f.pc = "lockQueue" ->
           Step([m EXCEPT !.started = TRUE], Released(mx, {"m_startedMutex"}),
                [f EXCEPT !.held = @ \ {"m_startedMutex"}, !.pc = "setStarted"])
      [] f.pc = "setStarted" ->
           LET m1 == [m EXCEPT !.queue = <<>>, !.cur = "", !.final = <<>>]
           IN Step(m1, mx,
                   WithCallbacks(f, CallbackNames(executeInitialTransition(m1, f.ev, <<>>).calls)))
      [] f.pc = "commit" ->
           LET r == executeInitialTransition(m, f.ev, <<>>)
           IN Step([r EXCEPT !.started = m.started, !.calls = <<>>], mx,
                   IF ~r.started THEN [f EXCEPT !.pc = "stopInternal"]
                   ELSE Returning(f, TRUE))
      [] f.pc = "stopInternal" ->
           Step(stopInternal(m).m, mx, Returning(f, TRUE))

\* StateMachine::start(Event &&) between its lock operations, by thread t
startLocked(m, mx, f, t) ==
    CASE f.pc = "lockApi" ->
           \* QMutexLocker apiLocker(&m_apiMutex); the event name is checked
           Step(m, Locked(mx, "m_apiMutex", t),
                IF f.ev = "" THEN Returning(Holding(f, "m_apiMutex"), FALSE)
                ELSE [Holding(f, "m_apiMutex") EXCEPT !.pc = "lockStarted"])
      [] f.pc = "lockStarted" ->
           \* QMutexLocker startedLocker(&m_startedMutex); m_started and
           \* m_validationStatus are checked
           Step(m, Locked(mx, "m_startedMutex", t),
                IF m.started \/ m.status # "Valid"
                THEN Returning(Holding(f, "m_startedMutex"), FALSE)
                ELSE [Holding(f, "m_startedMutex") EXCEPT !.pc = "lockQueue"])
      [] f.pc = "lockQueue" ->
           \* QMutexLocker eventQueueLocker(&m_eventQueueMutex); the queue, the
           \* current state and the final event are cleared
           Step([m EXCEPT !.queue = <<>>, !.cur = "", !.final = <<>>],
                Locked(mx, "m_eventQueueMutex", t),
                [Holding(f, "m_eventQueueMutex") EXCEPT !.pc = "setStarted"])
      [] f.pc = "setStarted" ->
           \* m_started = true; eventQueueLocker.unlock(); startedLocker.unlock()
           LET m1 == [m EXCEPT !.started = TRUE]
               unlocked == {"m_eventQueueMutex", "m_startedMutex"}
           IN Step(m1, Released(mx, unlocked),
                   WithCallbacks([f EXCEPT !.held = @ \ unlocked],
                                 CallbackNames(executeInitialTransition(m1, f.ev, <<>>).calls)))
      [] f.pc = "commit" ->
           \* executeInitialTransition after its callbacks: m_currentState and,
           \* in a final state, m_finalEvent are assigned
           LET r == executeInitialTransition(m, f.ev, <<>>)
           IN Step([r EXCEPT !.started = m.started, !.calls = <<>>], mx,
                   IF ~r.started THEN [f EXCEPT !.pc = "stopInternal"]
                   ELSE Returning(f, TRUE))
      [] f.pc = "stopInternal" ->
           \* stopInternal() under its own QMutexLocker of m_startedMutex
           Step(stopInternal(m).m, mx, Returning(f, TRUE))

\* Mutant of processNextEvent() between its lock operations: m_apiMutex is
\* unlocked together with m_eventQueueMutex before the transition is executed
processNextEventLocked_UnlocksApi(m, mx, f, t, run) ==
    CASE f.pc = "lockApi" ->
           Step(m, Locked(mx, "m_apiMutex", t),
                [Holding(f, "m_apiMutex") EXCEPT !.pc = "isStarted"])
      [] f.pc = "isStarted" ->
           Step(m, mx, IF ~m.started THEN Returning(f, FALSE)
                       ELSE [f EXCEPT !.pc = "lockQueue"])
      [] f.pc = "lockQueue" ->
           IF m.queue = <<>>
           THEN Step(m, Locked(mx, "m_eventQueueMutex", t),
                     Returning(Holding(f, "m_eventQueueMutex"), FALSE))
           ELSE Step([m EXCEPT !.queue = Tail(@)], Released(mx, {"m_apiMutex"}),
                     WithCallbacks([f EXCEPT !.ev = Head(m.queue),
                                             !.held = @ \ {"m_apiMutex"}],
                                   CallbackNames(run.calls)))
      [] f.pc = "commit" ->
           Step([run EXCEPT !.queue = m.queue, !.started = m.started, !.calls = <<>>], mx,
                IF ~run.started THEN [f EXCEPT !.pc = "stopInternal"]
                ELSE Returning(f, TRUE))
      [] f.pc = "stopInternal" ->
           Step(stopInternal(m).m, mx, Returning(f, TRUE))

\* StateMachine::processNextEvent between its lock operations, by thread t;
\* run is the machine after the transition selected for the event of the call,
\* with the log of the callbacks the transition invokes
processNextEventLocked(m, mx, f, t, run) ==
    CASE f.pc = "lockApi" ->
           \* QMutexLocker apiLocker(&m_apiMutex)
           Step(m, Locked(mx, "m_apiMutex", t),
                [Holding(f, "m_apiMutex") EXCEPT !.pc = "isStarted"])
      [] f.pc = "isStarted" ->
           \* if (!isStarted()) return false; isStarted() locks and unlocks
           \* m_startedMutex
           Step(m, mx, IF ~m.started THEN Returning(f, FALSE)
                       ELSE [f EXCEPT !.pc = "lockQueue"])
      [] f.pc = "lockQueue" ->
           \* QMutexLocker eventQueuelocker(&m_eventQueueMutex); the front event
           \* is taken; eventQueuelocker.unlock()
           IF m.queue = <<>>
           THEN Step(m, Locked(mx, "m_eventQueueMutex", t),
                     Returning(Holding(f, "m_eventQueueMutex"), FALSE))
           ELSE Step([m EXCEPT !.queue = Tail(@)], mx,
                     WithCallbacks([f EXCEPT !.ev = Head(m.queue)],
                                   CallbackNames(run.calls)))
      [] f.pc = "commit" ->
           \* the selected transition after its callbacks: m_currentState and,
           \* in a final state, m_finalEvent are assigned
           Step([run EXCEPT !.queue = m.queue, !.started = m.started, !.calls = <<>>], mx,
                IF ~run.started THEN [f EXCEPT !.pc = "stopInternal"]
                ELSE Returning(f, TRUE))
      [] f.pc = "stopInternal" ->
           \* stopInternal() under its own QMutexLocker of m_startedMutex
           Step(stopInternal(m).m, mx, Returning(f, TRUE))

\* StateMachine::addEventToFront and addEventToBack between their lock
\* operations, by thread t
addEventLocked(m, mx, f, t) ==
    CASE f.pc = "lockQueue" ->
           \* QMutexLocker eventQueueLocker(&m_eventQueueMutex)
           Step(m, Locked(mx, "m_eventQueueMutex", t),
                [Holding(f, "m_eventQueueMutex") EXCEPT !.pc = "lockStarted"])
      [] f.pc = "lockStarted" ->
           \* QMutexLocker startedLocker(&m_startedMutex); the checks and the push
           LET r == IF f.op = "addEventToFront" THEN addEventToFront(m, f.ev)
                    ELSE addEventToBack(m, f.ev)
           IN Step(r.m, Locked(mx, "m_startedMutex", t),
                   Returning(Holding(f, "m_startedMutex"), r.ret))

\* StateMachine::stop between its lock operations, by thread t
stopLocked(m, mx, f, t) ==
    CASE f.pc = "lockApi" ->
           Step(m, Locked(mx, "m_apiMutex", t),
                [Holding(f, "m_apiMutex") EXCEPT !.pc = "stopInternal"])
      [] f.pc = "stopInternal" ->
           LET r == stopInternal(m) IN Step(r.m, mx, Returning(f, r.ret))

\* StateMachine::validate between its lock operations, by thread t
validateLocked(m, mx, f, t) ==
    CASE f.pc = "lockApi" ->
           Step(m, Locked(mx, "m_apiMutex", t),
                [Holding(f, "m_apiMutex") EXCEPT !.pc = "isStarted"])
      [] f.pc = "isStarted" ->
           LET r == validate(m) IN Step(r.m, mx, Returning(f, r.ret))

\* StateMachine::addState between its lock operations, by thread t
addStateLocked(m, mx, f, t) ==
    CASE f.pc = "lockApi" ->
           Step(m, Locked(mx, "m_apiMutex", t),
                [Holding(f, "m_apiMutex") EXCEPT !.pc = "isStarted"])
      [] f.pc = "isStarted" ->
           LET r == addState(m, f.ev) IN Step(r.m, mx, Returning(f, r.ret))

\* StateMachine::currentState, by thread t
currentStateLocked(m, mx, f, t) ==
    Step(m, Locked(mx, "m_apiMutex", t), Returning(Holding(f, "m_apiMutex"), m.cur))

\* StateMachine::takeFinalEvent, by thread t
takeFinalEventLocked(m, mx, f, t) ==
    LET r == takeFinalEvent(m)
    IN Step(r.m, Locked(mx, "m_apiMutex", t), Returning(Holding(f, "m_apiMutex"), r.ret))

\* StateMachine::hasPendingEvents, by thread t
hasPendingEventsLocked(m, mx, f, t) ==
    Step(m, Locked(mx, "m_eventQueueMutex", t),
         Returning(Holding(f, "m_eventQueueMutex"), m.queue # <<>>))

\* StateMachine::isStarted, by thread t
isStartedLocked(m, mx, f, t) == Step(m, mx, Returning(f, m.started))

\* StateMachine::hasFinalEvent, by thread t: it declares no QMutexLocker and
\* reads m_finalEvent as the other threads have left it
hasFinalEventLocked(m, mx, f, t) == Step(m, mx, Returning(f, m.final # <<>>))

\* The call a thread is executing
Top(t) == threads[t][Len(threads[t])]

\* The thread's call can execute its next statement: the QMutex it is about
\* to lock is not locked (a QMutex is not recursive)
CanStep(t) ==
    /\ threads[t] # <<>>
    /\ Top(t).pc \notin {"callback", "ret"}
    /\ MutexAt(Top(t).pc) # "" => mutex[MutexAt(Top(t).pc)] = NoThread

\* The statement is executed: members, mutexes and the call's position change
Advance(t, r) ==
    /\ m_states' = r.m.states
    /\ m_initialTransition' = r.m.initial
    /\ m_validationStatus' = r.m.status
    /\ m_started' = r.m.started
    /\ m_currentState' = r.m.cur
    /\ m_eventQueue' = r.m.queue
    /\ m_finalEvent' = r.m.final
    /\ mutex' = r.mx
    /\ threads' = [threads EXCEPT ![t] = SubSeq(@, 1, Len(@) - 1) \o <<r.f>>]
    /\ UNCHANGED <<last, calls>>

ThreadStart ==
    \E t \in Threads :
       /\ CanStep(t) /\ Top(t).op = "start"
       /\ \E r \in {startLocked(Machine, mutex, Top(t), t)} : Advance(t, r)

\* The machine with the event of a processNextEvent() call alone in its queue:
\* the event the call has taken, or the front event it is about to take
EventTaken(m, f) ==
    IF f.pc = "commit" THEN [m EXCEPT !.queue = <<f.ev>>]
    ELSE [m EXCEPT !.queue = IF @ = <<>> THEN <<>> ELSE <<Head(@)>>]

ThreadProcessNextEvent ==
    \E t \in Threads :
       /\ CanStep(t) /\ Top(t).op = "processNextEvent"
       /\ \E taken \in {EventTaken(Machine, Top(t))} :
          \E run \in {processNextEvent(taken, <<>>, Top(t).guardResult).m} :
          \E r \in {processNextEventLocked(Machine, mutex, Top(t), t, run)} : Advance(t, r)

ThreadAddEvent ==
    \E t \in Threads :
       /\ CanStep(t) /\ Top(t).op \in EnqueueOps
       /\ \E r \in {addEventLocked(Machine, mutex, Top(t), t)} : Advance(t, r)

ThreadStop ==
    \E t \in Threads :
       /\ CanStep(t) /\ Top(t).op = "stop"
       /\ \E r \in {stopLocked(Machine, mutex, Top(t), t)} : Advance(t, r)

ThreadValidate ==
    \E t \in Threads :
       /\ CanStep(t) /\ Top(t).op = "validate"
       /\ \E r \in {validateLocked(Machine, mutex, Top(t), t)} : Advance(t, r)

ThreadAddState ==
    \E t \in Threads :
       /\ CanStep(t) /\ Top(t).op = "addState"
       /\ \E r \in {addStateLocked(Machine, mutex, Top(t), t)} : Advance(t, r)

ThreadCurrentState ==
    \E t \in Threads :
       /\ CanStep(t) /\ Top(t).op = "currentState"
       /\ \E r \in {currentStateLocked(Machine, mutex, Top(t), t)} : Advance(t, r)

ThreadTakeFinalEvent ==
    \E t \in Threads :
       /\ CanStep(t) /\ Top(t).op = "takeFinalEvent"
       /\ \E r \in {takeFinalEventLocked(Machine, mutex, Top(t), t)} : Advance(t, r)

ThreadHasPendingEvents ==
    \E t \in Threads :
       /\ CanStep(t) /\ Top(t).op = "hasPendingEvents"
       /\ \E r \in {hasPendingEventsLocked(Machine, mutex, Top(t), t)} : Advance(t, r)

ThreadIsStarted ==
    \E t \in Threads :
       /\ CanStep(t) /\ Top(t).op = "isStarted"
       /\ \E r \in {isStartedLocked(Machine, mutex, Top(t), t)} : Advance(t, r)

ThreadHasFinalEvent ==
    \E t \in Threads :
       /\ CanStep(t) /\ Top(t).op = "hasFinalEvent"
       /\ \E r \in {hasFinalEventLocked(Machine, mutex, Top(t), t)} : Advance(t, r)

\* The arguments a client passes to a public method
CallInputs(op) ==
    CASE op = "start" -> {"", StartedEvent}
      [] op \in EnqueueOps -> EventInputs
      [] op = "addState" -> NameInputs
      [] OTHER -> {""}

\* The enqueue calls that have not yet reached their push
PendingAdds ==
    Cardinality({<<t, i>> \in Threads \X (1..2) :
                    /\ i <= Len(threads[t])
                    /\ threads[t][i].op \in EnqueueOps
                    /\ threads[t][i].pc # "ret"})

\* The values the guard of a call may return; only processNextEvent() runs guards
GuardInputs(op) == IF op = "processNextEvent" THEN BOOLEAN ELSE {TRUE}

\* An enqueue call may begin while the queue can take its event
Callable(op) == op \in EnqueueOps => Len(m_eventQueue) + PendingAdds < MaxQueue

\* A client thread calls a public method
Call ==
    \E t \in Threads :
       /\ threads[t] = <<>>
       /\ \E op \in PublicOps :
          /\ Callable(op)
          /\ \E ev \in CallInputs(op), guardResult \in GuardInputs(op) :
                threads' = [threads EXCEPT ![t] = <<Frame(op, ev, guardResult)>>]
       /\ UNCHANGED <<m_states, m_initialTransition, m_validationStatus, m_started,
                      m_currentState, m_eventQueue, m_finalEvent, last, calls, mutex>>

\* The callback a call is running calls a public method of the machine
CallFromCallback ==
    \E t \in Threads :
       /\ Len(threads[t]) = 1
       /\ Top(t).pc = "callback"
       /\ Len(Top(t).nested) < MaxCallbackAdds
       /\ \E op \in PublicOps :
          /\ Callable(op)
          /\ \E ev \in CallInputs(op), guardResult \in GuardInputs(op) :
                threads' = [threads EXCEPT ![t] = Append(@, Frame(op, ev, guardResult))]
       /\ UNCHANGED <<m_states, m_initialTransition, m_validationStatus, m_started,
                      m_currentState, m_eventQueue, m_finalEvent, last, calls, mutex>>

\* The running callback returns to the call that invoked it
FinishCallback ==
    \E t \in Threads :
       /\ threads[t] # <<>>
       /\ Top(t).pc = "callback"
       /\ threads' = [threads EXCEPT ![t] =
              SubSeq(@, 1, Len(@) - 1) \o <<WithCallbacks(Top(t), Tail(Top(t).cbs))>>]
       /\ UNCHANGED <<m_states, m_initialTransition, m_validationStatus, m_started,
                      m_currentState, m_eventQueue, m_finalEvent, last, calls, mutex>>

\* What a callback learns of a call it made: the method, its argument, the
\* value it returned, and the callback that made it
NestedResult(f, cb) == [op |-> f.op, ev |-> f.ev, ret |-> f.ret, cb |-> cb]

\* A call returns: its QMutexLocker objects unlock their mutexes; the result of
\* a call made by a callback goes to that callback
Leave ==
    \E t \in Threads :
       /\ threads[t] # <<>>
       /\ Top(t).pc = "ret"
       /\ mutex' = Released(mutex, Top(t).held)
       /\ threads' = [threads EXCEPT ![t] =
              IF Len(@) = 1 THEN <<>>
              ELSE LET caller == @[1]
                   IN <<[caller EXCEPT !.nested =
                            Append(@, NestedResult(Top(t), Head(caller.cbs)))]>>]
       /\ UNCHANGED <<m_states, m_initialTransition, m_validationStatus, m_started,
                      m_currentState, m_eventQueue, m_finalEvent, last, calls>>

\* The client has configured the machine and its threads are about to use it.
\* Either every kind of callback is set: state "a" with entry and exit action,
\* a guarded state transition on "e" to the final state "b" and a guarded
\* internal transition on "f"; or the initial state "a" is the only state
InitThreads ==
    \E a1 \in {addState(Constructed, "a").m} :
    \E a2 \in {setStateEntryAction(a1, "a", TRUE).m} :
    \E a3 \in {setInitialTransition(a2, "a", TRUE).m} :
    \E b1 \in {addState(a2, "b").m} :
    \E b2 \in {setStateExitAction(b1, "a", TRUE).m} :
    \E b3 \in {setStateEntryAction(b2, "b", TRUE).m} :
    \E b4 \in {addStateTransition(b3, "a", "e", "b", TRUE, TRUE).m} :
    \E b5 \in {addInternalTransition(b4, "a", "f", TRUE, TRUE).m} :
    \E b6 \in {setInitialTransition(b5, "a", TRUE).m} :
    \E c \in {a3, b6} :
        /\ m_states = c.states
        /\ m_initialTransition = c.initial
        /\ m_validationStatus = c.status
        /\ m_started = FALSE
        /\ m_currentState = ""
        /\ m_eventQueue = <<>>
        /\ m_finalEvent = <<>>
        /\ last = Return("StateMachine", "", TRUE, "-")
        /\ calls = <<>>
        /\ mutex = Unlocked
        /\ threads = Idle

\* Client threads call the machine; callbacks make no calls on it
NextThreads ==
    \/ Call
    \/ ThreadStart
    \/ ThreadProcessNextEvent
    \/ ThreadAddEvent
    \/ ThreadStop
    \/ ThreadValidate
    \/ ThreadAddState
    \/ ThreadCurrentState
    \/ ThreadTakeFinalEvent
    \/ ThreadHasPendingEvents
    \/ ThreadIsStarted
    \/ FinishCallback
    \/ Leave

SpecThreads == InitThreads /\ [][NextThreads]_vars

\* A client thread calls hasFinalEvent()
CallHasFinalEvent ==
    \E t \in Threads :
       /\ threads[t] = <<>>
       /\ threads' = [threads EXCEPT ![t] = <<Frame("hasFinalEvent", "", TRUE)>>]
       /\ UNCHANGED <<m_states, m_initialTransition, m_validationStatus, m_started,
                      m_currentState, m_eventQueue, m_finalEvent, last, calls, mutex>>

\* Client threads call the machine and ask it for its final event
NextFinalEvent ==
    \/ NextThreads
    \/ CallHasFinalEvent
    \/ ThreadHasFinalEvent

SpecFinalEvent == InitThreads /\ [][NextFinalEvent]_vars

\* Client threads call the machine, and so do the callbacks they run
NextCallbacks ==
    \/ NextThreads
    \/ CallFromCallback

SpecCallbacks == InitThreads /\ [][NextCallbacks]_vars

\* ------------------------------------------------------------------ claims

\* The members a public call can change, without the call log
members == <<m_states, m_initialTransition, m_validationStatus, m_started,
             m_currentState, m_eventQueue, m_finalEvent>>

\* A step of processNextEvent() that found the machine started with a pending
\* event: the dequeued event is the head of the queue before the step
ProcessStep ==
    /\ last'.op = "processNextEvent"
    /\ m_started
    /\ m_eventQueue # <<>>
    /\ m_currentState \in DOMAIN m_states

\* The transition the specification selects for an event name in a state
SelectedKind(stateData, name) ==
    IF name \in DOMAIN stateData.internalTransitions THEN "internal"
    ELSE IF name \in DOMAIN stateData.stateTransitions THEN "state"
    ELSE IF stateData.defaultInternalTransition # <<>> THEN "defaultInternal"
    ELSE IF stateData.defaultStateTransition # <<>> THEN "defaultState"
    ELSE "ignored"

SelectedData(stateData, name) ==
    CASE SelectedKind(stateData, name) = "internal" -> stateData.internalTransitions[name]
      [] SelectedKind(stateData, name) = "state" -> stateData.stateTransitions[name]
      [] SelectedKind(stateData, name) = "defaultInternal" -> stateData.defaultInternalTransition[1]
      [] SelectedKind(stateData, name) = "defaultState" -> stateData.defaultStateTransition[1]

\* The kind, the data and the guard outcome of the transition of a ProcessStep
StepKind == SelectedKind(m_states[m_currentState], Head(m_eventQueue))
StepData == SelectedData(m_states[m_currentState], Head(m_eventQueue))
StepBlocked == calls' # <<>> /\ calls'[1].cb \in {"guard", "internalGuard"} /\ ~calls'[1].ret

\* C1: the event dequeued by processNextEvent() in state S is handled by S's
\* internal transition for its name, else by S's state transition for its
\* name, else by S's default internal transition, else by S's default state
\* transition; else it is ignored: processNextEvent() returns true, invokes no
\* callback and leaves the current state unchanged.  The callbacks invoked are
\* those of the selected kind, and a state transition that is not blocked
\* moves to the target of the selected transition.
C1_TransitionPrecedence ==
    [][ProcessStep =>
        /\ last'.branch = StepKind
        /\ StepKind = "ignored" =>
              last'.ret /\ calls' = <<>> /\ m_currentState' = m_currentState
        /\ StepKind \in {"internal", "defaultInternal"} =>
              /\ \A i \in 1..Len(calls') : calls'[i].cb \in {"internalGuard", "internalAction"}
              /\ m_currentState' = m_currentState
        /\ StepKind \in {"state", "defaultState"} =>
              /\ \A i \in 1..Len(calls') :
                    calls'[i].cb \in {"guard", "exitAction", "action", "entryAction"}
              /\ ~StepBlocked => m_currentState' = StepData.state
       ]_vars

\* C1 witness: a state transition keyed by the event name was selected in a
\* state that also has a default internal transition
C1_Witness ==
    /\ last.op = "processNextEvent" /\ last.ret /\ last.branch = "state"
    /\ \E s \in DOMAIN m_states :
          /\ last.ev \in DOMAIN m_states[s].stateTransitions
          /\ m_states[s].defaultInternalTransition # <<>>
          /\ calls # <<>> /\ calls[1].cur = s

\* The callbacks of a list, in order, that are set
SetCallbacks(list) ==
    LET IsSet(c) == c.set
    IN SelectSeq(list, IsSet)

\* The callbacks a state transition for event e from `from` to `to` is claimed
\* to invoke, in order, with their arguments
StateTransitionCalls(states, transitionData, e, from, to) ==
    SetCallbacks(<<
        [cb |-> "guard", args |-> <<e, from, to>>, set |-> transitionData.guard],
        [cb |-> "exitAction", args |-> <<e, from, to>>, set |-> states[from].exitAction],
        [cb |-> "action", args |-> <<e, from, to>>, set |-> transitionData.action],
        [cb |-> "entryAction", args |-> <<e, to, from>>, set |-> states[to].entryAction]>>)

\* A ProcessStep whose state transition fires (its guard is unset or returned true)
StateTransitionFires ==
    /\ ProcessStep
    /\ StepKind \in {"state", "defaultState"}
    /\ ~StepBlocked

\* C2: a state transition that fires for event e from state `from` to state
\* `to` invokes, in this order and once each, those of guard(e, from, to), exit
\* action of `from` (e, from, to), transition action (e, from, to) and entry
\* action of `to` (e, to, from) that are set; every one of them runs while
\* the current state is still `from`, the machine is started and no final
\* event is stored; afterwards the current state is `to`.
C2_StateTransitionOrder ==
    [][StateTransitionFires =>
        LET from == m_currentState
            to == StepData.state
            expected == StateTransitionCalls(m_states, StepData, Head(m_eventQueue), from, to)
        IN /\ Len(calls') = Len(expected)
           /\ \A i \in 1..Len(expected) :
                 /\ calls'[i].cb = expected[i].cb
                 /\ calls'[i].args = expected[i].args
                 /\ calls'[i].ret
                 /\ calls'[i].cur = from
                 /\ calls'[i].started
                 /\ calls'[i].final = <<>>
           /\ m_currentState' = to
       ]_vars

\* C2 witness: a transition from a to b ran guard, exit, action and entry
C2_Witness ==
    /\ last.op = "processNextEvent" /\ last.ret /\ last.branch = "state"
    /\ Len(calls) = 4
    /\ calls[1].cb = "guard" /\ calls[4].cb = "entryAction"
    /\ calls[4].cur = "a" /\ m_currentState = "b"

\* A state as the specification calls it final: all four tables/slots empty
NoTransitions(stateData) ==
    /\ DOMAIN stateData.stateTransitions = {}
    /\ DOMAIN stateData.internalTransitions = {}
    /\ Len(stateData.defaultStateTransition) = 0
    /\ Len(stateData.defaultInternalTransition) = 0

\* A start() that passes its checks
StartAccepted ==
    /\ last'.op = "start"
    /\ m_validationStatus = "Valid"
    /\ ~m_started
    /\ last'.ev # ""

\* C3: when the initial transition of start() or a firing state transition of
\* processNextEvent() sets the current state to a final state, the same call
\* sets started to false, stores the triggering event as the final event and
\* still returns true.
C3_AutoStopOnFinal ==
    [][/\ (StartAccepted /\ NoTransitions(m_states[m_initialTransition.state])) =>
              /\ last'.ret
              /\ m_currentState' = m_initialTransition.state
              /\ ~m_started'
              /\ m_finalEvent' = <<last'.ev>>
       /\ (StateTransitionFires /\ NoTransitions(m_states[StepData.state])) =>
              /\ last'.ret
              /\ m_currentState' = StepData.state
              /\ ~m_started'
              /\ m_finalEvent' = <<Head(m_eventQueue)>>
      ]_vars

\* C3 witness: processNextEvent() entered a final state and auto-stopped
C3_Witness ==
    /\ last.op = "processNextEvent" /\ last.ret
    /\ m_currentState \in DOMAIN m_states
    /\ NoTransitions(m_states[m_currentState])
    /\ calls # <<>> /\ calls[1].cur # m_currentState
    /\ ~m_started
    /\ m_finalEvent = <<last.ev>>

\* C4: start(event) returns true iff, at the call, the validation status is
\* Valid, the machine is not started and the event name is non-empty; a
\* start() that returns false changes no member and invokes no callback.
C4_StartPreconditions ==
    [][last'.op = "start" =>
        /\ last'.ret <=> (m_validationStatus = "Valid" /\ ~m_started /\ last'.ev # "")
        /\ ~last'.ret => (UNCHANGED members /\ calls' = <<>>)
       ]_vars

\* C4 witness: a start() with a non-empty event name on a valid machine was
\* refused because the machine was started, with an event pending
C4_Witness ==
    /\ last.op = "start" /\ ~last.ret /\ last.ev # ""
    /\ m_validationStatus = "Valid"
    /\ m_started
    /\ m_eventQueue # <<>>

\* The enqueue calls logged for a sequence of callback invocations, in order
RECURSIVE AllAdds(_)
AllAdds(cs) == IF cs = <<>> THEN <<>> ELSE Head(cs).adds \o AllAdds(Tail(cs))

\* The queue q after the logged enqueue calls that returned true
RECURSIVE AfterAdds(_, _)
AfterAdds(q, adds) ==
    IF adds = <<>> THEN q
    ELSE LET a == Head(adds)
         IN AfterAdds(IF ~a.ret THEN q
                      ELSE IF a.front THEN <<a.ev>> \o q
                      ELSE q \o <<a.ev>>,
                      Tail(adds))

\* C5: processNextEvent() returns true iff, at the call, the machine is
\* started and the queue is non-empty; a successful call removes exactly the
\* event at the front of the queue, every callback it invokes is invoked for
\* that event, and the events the callbacks enqueue are left pending; a call
\* that returns false leaves queue, current state and started flag unchanged.
C5_ProcessNextEvent ==
    [][last'.op = "processNextEvent" =>
        /\ last'.ret <=> (m_started /\ m_eventQueue # <<>>)
        /\ last'.ret =>
              /\ last'.ev = Head(m_eventQueue)
              /\ m_eventQueue' = AfterAdds(Tail(m_eventQueue), AllAdds(calls'))
              /\ \A i \in 1..Len(calls') : calls'[i].args[1] = Head(m_eventQueue)
        /\ ~last'.ret =>
              /\ calls' = <<>>
              /\ UNCHANGED <<m_eventQueue, m_currentState, m_started>>
       ]_vars

\* C5 witness: a callback enqueued the event it was invoked for, in front of
\* another pending event, and both are pending after the call
C5_Witness ==
    /\ last.op = "processNextEvent" /\ last.ret
    /\ \E i \in 1..Len(calls) :
          /\ calls[i].adds # <<>>
          /\ calls[i].adds[1].ret /\ calls[i].adds[1].front
          /\ calls[i].adds[1].ev = last.ev
          /\ calls[i].queue # <<>>
    /\ Len(m_eventQueue) = 2
    /\ m_eventQueue[1] = last.ev

\* C6: addEventToBack()/addEventToFront() return true iff the machine is
\* started and the event name is non-empty, for the calls of the client and
\* for the calls made by callbacks; a call that returns true makes the queue
\* one event longer, a call that returns false leaves it unchanged.
C6_AddEvent ==
    [][/\ last'.op \in {"addEventToFront", "addEventToBack"} =>
              /\ last'.ret <=> (m_started /\ last'.ev # "")
              /\ last'.ret => Len(m_eventQueue') = Len(m_eventQueue) + 1
              /\ ~last'.ret => m_eventQueue' = m_eventQueue
       /\ \A i \in 1..Len(calls') :
              /\ \A j \in 1..Len(calls'[i].adds) :
                    calls'[i].adds[j].ret <=> (calls'[i].started /\ calls'[i].adds[j].ev # "")
              /\ LET before == calls'[i].queue
                     after == IF i < Len(calls') THEN calls'[i + 1].queue ELSE m_eventQueue'
                     accepted == {j \in 1..Len(calls'[i].adds) : calls'[i].adds[j].ret}
                 IN Len(after) = Len(before) + Cardinality(accepted)
      ]_vars

\* C6 witness: addEventToBack() was accepted behind a pending event
C6_Witness ==
    /\ last.op = "addEventToBack" /\ last.ret
    /\ Len(m_eventQueue) = 2
    /\ m_eventQueue[2] = last.ev
    /\ m_eventQueue[1] # last.ev

C8_InitialTransitionOrder ==
    [][(last'.op = "start" /\ last'.ret) =>
        LET init == m_initialTransition.state
            expected == SetCallbacks(<<
                [cb |-> "initialAction", args |-> <<last'.ev, init>>,
                 set |-> m_initialTransition.action],
                [cb |-> "entryAction", args |-> <<last'.ev, init, "">>,
                 set |-> m_states[init].entryAction]>>)
        IN /\ Len(calls') = Len(expected)
           /\ \A i \in 1..Len(expected) :
                 /\ calls'[i].cb = expected[i].cb
                 /\ calls'[i].args = expected[i].args
                 /\ calls'[i].cur = ""
                 /\ calls'[i].started
                 /\ calls'[i].final = <<>>
           /\ m_currentState' = init
       ]_vars

\* C8 witness: start() ran the initial action and then the entry action
C8_Witness ==
    /\ last.op = "start" /\ last.ret
    /\ Len(calls) = 2
    /\ calls[1].cb = "initialAction" /\ calls[2].cb = "entryAction"
    /\ m_currentState = "a"

\* C9: a successful start() empties the queue and clears the current state and
\* the final event before any callback runs: each callback finds only the
\* events enqueued by the callbacks before it; when start() returns, the
\* current state is the initial state, the queue holds exactly the events
\* enqueued during this start(), and a final event is stored iff this start()
\* auto-stopped (and then it is the start event).
C9_StartClears ==
    [][(last'.op = "start" /\ last'.ret) =>
        /\ \A i \in 1..Len(calls') :
              /\ calls'[i].cur = ""
              /\ calls'[i].final = <<>>
              /\ calls'[i].queue = AfterAdds(<<>>, AllAdds(SubSeq(calls', 1, i - 1)))
        /\ m_currentState' = m_initialTransition.state
        /\ m_eventQueue' = AfterAdds(<<>>, AllAdds(calls'))
        /\ (m_finalEvent' # <<>>) <=> ~m_started'
        /\ (m_finalEvent' # <<>>) => m_finalEvent' = <<last'.ev>>
       ]_vars

\* C9 witness: after start() the queue holds the event its callback enqueued
C9_Witness ==
    /\ last.op = "start" /\ last.ret
    /\ m_started
    /\ calls # <<>> /\ calls[1].queue = <<>> /\ calls[1].adds # <<>>
    /\ Len(m_eventQueue) = 1

\* The states the specification counts as reachable from the states R: the
\* targets of state transitions and of default state transitions, transitively
RECURSIVE ReachableFrom(_, _)
ReachableFrom(states, R) ==
    LET step == {t \in DOMAIN states :
                    \E s \in R \cap DOMAIN states :
                       \/ \E k \in DOMAIN states[s].stateTransitions :
                             states[s].stateTransitions[k].state = t
                       \/ /\ states[s].defaultStateTransition # <<>>
                          /\ states[s].defaultStateTransition[1].state = t}
    IN IF step \subseteq R THEN R ELSE ReachableFrom(states, R \cup step)

\* validate() called on a stopped machine that has a state, an initial
\* transition and no final state with an exit action
ValidateReachabilityStep ==
    /\ last'.op = "validate"
    /\ ~m_started
    /\ DOMAIN m_states # {}
    /\ m_initialTransition.state # ""
    /\ \A s \in DOMAIN m_states : NoTransitions(m_states[s]) => ~m_states[s].exitAction

\* C10: such a validate() succeeds iff the states reachable from the initial
\* state through the targets of state transitions and of default state
\* transitions are all the declared states.
C10_ValidateReachability ==
    [][ValidateReachabilityStep =>
        (last'.ret <=>
            ReachableFrom(m_states, {m_initialTransition.state}) = DOMAIN m_states)
       ]_vars

\* The configuration of the machine: its states and its initial transition
configuration == <<m_states, m_initialTransition>>

\* The names under which the configuration calls are logged
ConfigurationCalls ==
    {"addState", "setStateEntryAction", "setStateExitAction", "setInitialTransition",
     "addStateTransition", "addInternalTransition", "setDefaultTransition(state)",
     "setDefaultTransition(internal)"}

\* Some final state of the configuration has an exit action
FinalStateWithExitAction ==
    \E s \in DOMAIN m_states : NoTransitions(m_states[s]) /\ m_states[s].exitAction

\* C11: validate() on a stopped machine returns false and sets the status to
\* Invalid when there is no state, or no initial transition, or a final state
\* with an exit action; a machine whose only state is its initial state and
\* has none of these defects validates (status Valid), whether or not the
\* state is final and has an entry action; validate() never changes the
\* configuration.
C11_ValidateStructure ==
    [][last'.op = "validate" =>
        /\ UNCHANGED configuration
        /\ (/\ ~m_started
            /\ \/ DOMAIN m_states = {}
               \/ m_initialTransition.state = ""
               \/ FinalStateWithExitAction) =>
              (~last'.ret /\ m_validationStatus' = "Invalid")
        /\ (/\ ~m_started
            /\ DOMAIN m_states = {m_initialTransition.state}
            /\ ~FinalStateWithExitAction) =>
              (last'.ret /\ m_validationStatus' = "Valid")
       ]_vars

\* C11 witness: a machine whose only state is final and has an entry action
\* was validated successfully
C11_Witness ==
    /\ last.op = "validate" /\ last.ret
    /\ m_validationStatus = "Valid"
    /\ DOMAIN m_states = {m_initialTransition.state}
    /\ NoTransitions(m_states[m_initialTransition.state])
    /\ m_states[m_initialTransition.state].entryAction

\* C12: while the machine is started every configuration call returns false,
\* and a configuration call that returns false changes neither the
\* configuration nor the validation status.
C12_ConfigurationRefused ==
    [][last'.op \in ConfigurationCalls =>
        /\ m_started => ~last'.ret
        /\ ~last'.ret => UNCHANGED <<configuration, m_validationStatus>>
       ]_vars

\* C12 witness: setInitialTransition() was refused on a started machine
C12_Witness ==
    /\ last.op = "setInitialTransition" /\ ~last.ret
    /\ m_started
    /\ m_validationStatus = "Valid"

\* C13: a configuration call that returns true leaves the validation status
\* Unvalidated, whatever the status was at the call.
C13_ConfigurationUnvalidates ==
    [][(last'.op \in ConfigurationCalls /\ last'.ret) =>
            m_validationStatus' = "Unvalidated"]_vars

\* C13 witness: addStateTransition() succeeded on a machine that was Valid
C13_Witness ==
    /\ last.op = "addStateTransition" /\ last.ret
    /\ last.status = "Valid"
    /\ m_validationStatus = "Unvalidated"

\* C14 as claimed: whenever validate() returns false the status is Invalid
\* afterwards, also when it was called on a started machine; whenever it
\* returns true the status is Valid afterwards.
C14_ValidateSetsStatus ==
    [][last'.op = "validate" =>
        m_validationStatus' = IF last'.ret THEN "Valid" ELSE "Invalid"]_vars

\* C14 amended: whenever validate() returns false on a stopped machine the
\* status is Invalid afterwards; whenever it returns true the status is Valid
\* afterwards.
C14_ValidateSetsStatusWhenStopped ==
    [][last'.op = "validate" =>
        /\ last'.ret => m_validationStatus' = "Valid"
        /\ (~last'.ret /\ ~m_started) => m_validationStatus' = "Invalid"
       ]_vars

\* C14 witness: validate() failed on a stopped machine that was Unvalidated
\* and has states and an initial transition
C14_Witness ==
    /\ last.op = "validate" /\ ~last.ret
    /\ last.status = "Unvalidated"
    /\ ~m_started
    /\ m_initialTransition.state # ""
    /\ m_validationStatus = "Invalid"

\* C15: validate() called on a started machine returns false and leaves the
\* validation status Valid.
C15_ValidateWhileStarted ==
    [][(last'.op = "validate" /\ m_started) =>
        /\ ~last'.ret
        /\ m_validationStatus = "Valid"
        /\ m_validationStatus' = "Valid"
       ]_vars

\* C15 witness: validate() was refused on a started machine, which is Valid
C15_Witness ==
    /\ last.op = "validate" /\ ~last.ret
    /\ m_started
    /\ m_validationStatus = "Valid"

\* A ProcessStep whose internal transition fires (its guard is unset or
\* returned true)
InternalTransitionFires ==
    /\ ProcessStep
    /\ StepKind \in {"internal", "defaultInternal"}
    /\ ~StepBlocked

\* C16: an internal transition (specific or default) that fires invokes,
\* after its guard if one is set, exactly its action with (event, current
\* state) and no entry or exit action; processNextEvent() returns true and
\* current state, started flag and final event are unchanged, so the machine
\* is not stopped.
C16_InternalTransition ==
    [][InternalTransitionFires =>
        LET guarded == StepData.guard
            n == IF guarded THEN 2 ELSE 1
        IN /\ last'.ret
           /\ Len(calls') = n
           /\ guarded => (calls'[1].cb = "internalGuard" /\ calls'[1].ret)
           /\ calls'[n].cb = "internalAction"
           /\ calls'[n].args = <<Head(m_eventQueue), m_currentState>>
           /\ UNCHANGED <<m_currentState, m_started, m_finalEvent>>
           /\ m_started'
       ]_vars

\* C16 witness: a default internal transition ran its guard and its action in
\* a state that has an entry and an exit action
C16_Witness ==
    /\ last.op = "processNextEvent" /\ last.ret /\ last.branch = "defaultInternal"
    /\ Len(calls) = 2
    /\ calls[1].cb = "internalGuard" /\ calls[1].ret
    /\ calls[2].cb = "internalAction"
    /\ m_started
    /\ m_currentState \in DOMAIN m_states
    /\ m_states[m_currentState].entryAction /\ m_states[m_currentState].exitAction

\* C17: stop() returns true iff the machine is started; it then sets started
\* to false and changes nothing else (current state, event queue, final
\* event, validation status, configuration); on a stopped machine it changes
\* nothing; it invokes no callback.
C17_Stop ==
    [][last'.op = "stop" =>
        /\ last'.ret <=> m_started
        /\ ~m_started'
        /\ UNCHANGED <<m_currentState, m_eventQueue, m_finalEvent, m_validationStatus,
                       configuration>>
        /\ calls' = <<>>
       ]_vars

\* C17 witness: stop() stopped a machine that has an event pending
C17_Witness ==
    /\ last.op = "stop" /\ last.ret
    /\ ~m_started
    /\ m_currentState # ""
    /\ m_eventQueue # <<>>

\* A step of start() or processNextEvent() that ends with the machine
\* stopped in a final state
AutoStopStep ==
    /\ last'.op \in {"start", "processNextEvent"}
    /\ last'.ret
    /\ ~m_started'

\* A step of start() that leaves the machine started
StartStep ==
    /\ last'.op = "start"
    /\ last'.ret
    /\ m_started'

\* C18: takeFinalEvent() returns the stored final event, if there is one, and
\* leaves none stored; an auto-stop stores the event that caused the entry
\* into the final state; a successful start() that does not auto-stop leaves
\* none stored; no other call (stop() included) changes the stored final
\* event, and none is stored while the machine is started.  Hence the first
\* takeFinalEvent() after an auto-stop returns its event and the later ones
\* return empty until the next auto-stop.
C18_TakeFinalEvent ==
    [][/\ last'.op = "takeFinalEvent" =>
              /\ last'.ret <=> (m_finalEvent # <<>>)
              /\ last'.ret => <<last'.ev>> = m_finalEvent
              /\ m_finalEvent' = <<>>
       /\ AutoStopStep => m_finalEvent' = <<last'.ev>>
       /\ StartStep => m_finalEvent' = <<>>
       /\ (last'.op # "takeFinalEvent" /\ ~AutoStopStep /\ ~StartStep) =>
              UNCHANGED m_finalEvent
       /\ m_started => m_finalEvent = <<>>
      ]_vars

\* C18 witness: takeFinalEvent() returned empty on a machine that stopped in
\* a final state: the final event had been taken before
C18_Witness ==
    /\ last.op = "takeFinalEvent" /\ ~last.ret
    /\ ~m_started
    /\ m_currentState \in DOMAIN m_states
    /\ NoTransitions(m_states[m_currentState])
    /\ m_finalEvent = <<>>

\* C19: a processNextEvent() that auto-stops the machine leaves in the queue
\* the events that were behind the dequeued one and the events its callbacks
\* enqueued; while the machine is stopped only a successful start() changes
\* the queue, and processNextEvent() returns false.
C19_QueueKeptOnAutoStop ==
    [][/\ (last'.op = "processNextEvent" /\ AutoStopStep) =>
              m_eventQueue' = AfterAdds(Tail(m_eventQueue), AllAdds(calls'))
       /\ (~m_started /\ ~(last'.op = "start" /\ last'.ret)) =>
              UNCHANGED m_eventQueue
       /\ (~m_started /\ last'.op = "processNextEvent") => ~last'.ret
      ]_vars

\* C19 witness: processNextEvent() was refused on a machine that stopped in a
\* final state with an event pending
C19_Witness ==
    /\ last.op = "processNextEvent" /\ ~last.ret
    /\ ~m_started
    /\ m_currentState \in DOMAIN m_states
    /\ NoTransitions(m_states[m_currentState])
    /\ m_finalEvent # <<>>
    /\ m_eventQueue # <<>>

\* C20: an accepted addEventToBack() puts the event behind all pending
\* events, an accepted addEventToFront() puts it in front of them, for the
\* calls of the client and for those of callbacks; processNextEvent() takes
\* the event at the front and keeps the order of the others; no other call
\* but a successful start() changes the queue.  Hence events are dequeued in
\* the order of their addEventToBack() calls, and an event added to the front
\* is dequeued before every event that was pending when it was added.
C20_QueueOrder ==
    [][/\ (last'.op = "addEventToBack" /\ last'.ret) =>
              m_eventQueue' = Append(m_eventQueue, last'.ev)
       /\ (last'.op = "addEventToFront" /\ last'.ret) =>
              m_eventQueue' = <<last'.ev>> \o m_eventQueue
       /\ (last'.op = "processNextEvent" /\ last'.ret) =>
              /\ last'.ev = Head(m_eventQueue)
              /\ calls' # <<>> => calls'[1].queue = Tail(m_eventQueue)
              /\ calls' = <<>> => m_eventQueue' = Tail(m_eventQueue)
       /\ \A i \in 1..Len(calls') :
              LET after == IF i < Len(calls') THEN calls'[i + 1].queue ELSE m_eventQueue'
              IN after = AfterAdds(calls'[i].queue, calls'[i].adds)
       /\ (last'.op \notin {"addEventToBack", "addEventToFront", "processNextEvent", "start"}
           \/ ~last'.ret) => UNCHANGED m_eventQueue
      ]_vars

\* C20 witness: addEventToFront() put an event in front of a different
\* pending event
C20_Witness ==
    /\ last.op = "addEventToFront" /\ last.ret
    /\ Len(m_eventQueue) = 2
    /\ m_eventQueue[1] = last.ev
    /\ m_eventQueue[2] # last.ev

\* The mutexes thread t has locked
HeldBy(t) == {k \in DOMAIN mutex : mutex[k] = t}

\* The QMutex the thread's call is about to lock, "" if none
Wanted(t) == IF threads[t] = <<>> THEN "" ELSE MutexAt(Top(t).pc)

\* The thread waits for a QMutex that will never be unlocked: its holder is
\* the thread itself, or a thread that waits for it, or a thread that waits forever
RECURSIVE WaitsForever(_, _)
WaitsForever(t, seen) ==
    /\ Wanted(t) # ""
    /\ mutex[Wanted(t)] # NoThread
    /\ LET u == mutex[Wanted(t)]
       IN u \in seen \cup {t} \/ WaitsForever(u, seen \cup {t})

Stuck(t) == WaitsForever(t, {})

\* A callback run by start() or processNextEvent() on thread t is inside a
\* call of one of the named methods
CallbackCalls(t, ops) ==
    /\ Len(threads[t]) = 2
    /\ threads[t][1].op \in {"start", "processNextEvent"}
    /\ threads[t][1].pc = "callback"
    /\ Top(t).op \in ops

\* The elements of a sequence
Elements(q) == {q[i] : i \in DOMAIN q}

\* C21: an enqueue call with a non-empty event name made from inside any
\* callback of start() or processNextEvent() does not block, returns true, and
\* its event is in the queue when the outer call returns.
C21_EnqueueFromCallback ==
    /\ [](\A t \in Threads : (CallbackCalls(t, EnqueueOps) /\ Top(t).ev # "") => ~Stuck(t))
    /\ [][\A t \in Threads :
            /\ (CallbackCalls(t, EnqueueOps) /\ Top(t).ev # "" /\ Top(t).pc = "ret") =>
                   Top(t).ret = TRUE
            /\ (Len(threads[t]) = 1 /\ threads'[t] = <<>>) =>
                   \A i \in DOMAIN Top(t).nested :
                      LET n == Top(t).nested[i]
                      IN (n.op \in EnqueueOps /\ n.ev # "") =>
                            /\ n.ret = TRUE
                            /\ n.ev \in Elements(m_eventQueue')
         ]_vars

\* C21 witness: processNextEvent() is about to return after its exit action
\* enqueued an event, and the event is in the queue
C21_Witness ==
    \E t \in Threads :
       /\ Len(threads[t]) = 1
       /\ Top(t).op = "processNextEvent" /\ Top(t).pc = "ret"
       /\ \E i \in DOMAIN Top(t).nested :
             /\ Top(t).nested[i].op \in EnqueueOps
             /\ Top(t).nested[i].cb = "exitAction"
             /\ Top(t).nested[i].ret = TRUE
             /\ Top(t).nested[i].ev \in Elements(m_eventQueue)

\* C22: when client threads call the public methods concurrently and no
\* callback calls the machine, no thread waits forever for a mutex; start()
\* on one thread and an enqueue call on another never block each other.
C22_NoDeadlock == \A t \in Threads : ~Stuck(t)

\* C23: start() called from the initial action or from the entry action of
\* the initial state, while the outer start() runs them, is not blocked: it
\* returns false (the started flag refuses it) and the outer start() goes on.
C23_ReentrantStartRejected ==
    \A t \in Threads :
       (CallbackCalls(t, {"start"}) /\ threads[t][1].op = "start") =>
          /\ ~Stuck(t)
          /\ Top(t).pc = "ret" => Top(t).ret = FALSE

\* The methods that lock m_apiMutex, other than start()
ApiLockOps ==
    {"stop", "processNextEvent", "validate", "currentState", "takeFinalEvent", "addState"}

\* C24: while a callback of start() or processNextEvent() runs, the calling
\* thread holds m_apiMutex, and the outer call holds neither m_eventQueueMutex
\* nor m_startedMutex; a call of stop, processNextEvent, validate, currentState,
\* takeFinalEvent or a configuration method made by the callback waits forever
\* and never returns; an enqueue call made by the callback is never blocked forever.
C24_ApiLockedInCallbacks ==
    /\ [](\A t \in Threads :
            /\ (threads[t] # <<>> /\ threads[t][1].pc = "callback") =>
                   /\ mutex.m_apiMutex = t
                   /\ threads[t][1].held = {"m_apiMutex"}
                   /\ Len(threads[t]) = 1 => HeldBy(t) = {"m_apiMutex"}
            /\ CallbackCalls(t, ApiLockOps) => Stuck(t) /\ Top(t).pc = "lockApi"
            /\ CallbackCalls(t, EnqueueOps) => ~Stuck(t))
    /\ [][\A t \in Threads : CallbackCalls(t, ApiLockOps) => threads'[t] = threads[t]]_vars

\* C24 witness: the transition action of processNextEvent() has called stop(),
\* which waits for the m_apiMutex its own thread holds
C24_Witness ==
    \E t \in Threads :
       /\ CallbackCalls(t, {"stop"})
       /\ threads[t][1].op = "processNextEvent"
       /\ Head(threads[t][1].cbs) = "action"
       /\ Stuck(t)
       /\ mutex.m_apiMutex = t

\* The state name given first to the configuration call of the step
ArgState == last'.args[1]

\* C25: in every configuration no state has a state transition and an
\* internal transition for the same event name; addStateTransition() and
\* addInternalTransition() called for a declared state and a trigger that
\* already has a transition of either kind in that state return false and
\* change neither the configuration nor the validation status.
C25_OneTransitionPerTrigger ==
    [][/\ \A s \in DOMAIN m_states :
              DOMAIN m_states[s].stateTransitions
                  \cap DOMAIN m_states[s].internalTransitions = {}
       /\ (/\ last'.op \in {"addStateTransition", "addInternalTransition"}
           /\ ArgState \in DOMAIN m_states
           /\ last'.args[2] \in DOMAIN m_states[ArgState].stateTransitions
                                 \cup DOMAIN m_states[ArgState].internalTransitions) =>
              (~last'.ret /\ UNCHANGED <<configuration, m_validationStatus>>)
      ]_vars

\* C25 witness: addInternalTransition() was refused on a stopped machine for
\* a trigger that has a state transition in that state
C25_Witness ==
    /\ last.op = "addInternalTransition" /\ ~last.ret
    /\ ~m_started
    /\ last.args[1] \in DOMAIN m_states
    /\ last.args[2] \in DOMAIN m_states[last.args[1]].stateTransitions

\* C26: in every configuration no state has both a default state transition
\* and a default internal transition; either overload of
\* setDefaultTransition() called for a declared state that already has a
\* default transition of either kind returns false and changes neither the
\* configuration nor the validation status.
C26_OneDefaultTransition ==
    [][/\ \A s \in DOMAIN m_states :
              ~(/\ m_states[s].defaultStateTransition # <<>>
                /\ m_states[s].defaultInternalTransition # <<>>)
       /\ (/\ last'.op \in {"setDefaultTransition(state)", "setDefaultTransition(internal)"}
           /\ ArgState \in DOMAIN m_states
           /\ \/ m_states[ArgState].defaultStateTransition # <<>>
              \/ m_states[ArgState].defaultInternalTransition # <<>>) =>
              (~last'.ret /\ UNCHANGED <<configuration, m_validationStatus>>)
      ]_vars

\* C26 witness: setDefaultTransition() (internal transition) was refused on a
\* stopped machine for a state that has a default state transition
C26_Witness ==
    /\ last.op = "setDefaultTransition(internal)" /\ ~last.ret
    /\ ~m_started
    /\ last.args[1] \in DOMAIN m_states
    /\ m_states[last.args[1]].defaultStateTransition # <<>>

\* C27: once the initial transition is set it never changes;
\* setInitialTransition() returns true iff no initial transition is set and
\* the named state is declared (so never for an empty name), and then
\* initialState() is that state; when it returns false the initial
\* transition is as before.
C27_InitialTransitionOnce ==
    [][/\ m_initialTransition.state # "" => UNCHANGED m_initialTransition
       /\ last'.op = "setInitialTransition" =>
              /\ last'.ret <=> (/\ m_initialTransition.state = ""
                                /\ ArgState \in DOMAIN m_states)
              /\ last'.ret => (m_initialTransition'.state = ArgState /\ ArgState # "")
              /\ ~last'.ret => UNCHANGED m_initialTransition
      ]_vars

\* C27 witness: setInitialTransition() naming another declared state was
\* refused because the initial transition is set
C27_Witness ==
    /\ last.op = "setInitialTransition" /\ ~last.ret
    /\ m_initialTransition.state # ""
    /\ last.args[1] \in DOMAIN m_states
    /\ last.args[1] # m_initialTransition.state

\* C28: whenever the validation status is Valid, a state exists, the initial
\* transition names a declared state, no final state has an exit action and
\* the reachability check of validate() reaches every declared state; no
\* step changes the configuration and leaves the status Valid.
C28_ValidMeansValidated ==
    [][/\ m_validationStatus = "Valid" =>
              /\ DOMAIN m_states # {}
              /\ m_initialTransition.state \in DOMAIN m_states
              /\ ~FinalStateWithExitAction
              /\ traverseStates(m_states, m_initialTransition.state, {}) = DOMAIN m_states
       /\ (m_validationStatus = "Valid" /\ m_validationStatus' = "Valid") =>
              UNCHANGED configuration
      ]_vars

\* C28 witness: a configuration call was refused on a stopped, Valid machine
\* whose state has a transition; the machine is still Valid
C28_Witness ==
    /\ last.op \in ConfigurationCalls /\ ~last.ret
    /\ last.status = "Valid"
    /\ m_validationStatus = "Valid"
    /\ ~m_started
    /\ \E s \in DOMAIN m_states : ~NoTransitions(m_states[s])

\* The current state names a declared state that is final
InFinalState(states, cur) ==
    /\ cur \in DOMAIN states
    /\ NoTransitions(states[cur])

\* C29: finalStateReached() returns true iff the current state names a
\* declared state without transitions, and changes nothing; the current state
\* is empty and the result false until the first successful start(); after
\* an auto-stop the current state is final, and it stays final until the
\* configuration changes or start() succeeds.
C29_FinalStateReached ==
    [][/\ last'.op = "finalStateReached" =>
              /\ last'.ret <=> InFinalState(m_states, m_currentState)
              /\ UNCHANGED members
       /\ m_currentState = "" => ~finalStateReached(Machine).ret
       /\ (m_currentState = "" /\ ~(last'.op = "start" /\ last'.ret)) => m_currentState' = ""
       /\ AutoStopStep => InFinalState(m_states', m_currentState')
       /\ (/\ InFinalState(m_states, m_currentState)
           /\ UNCHANGED configuration
           /\ ~(last'.op = "start" /\ last'.ret)) =>
              InFinalState(m_states', m_currentState')
      ]_vars

\* C29 witness: finalStateReached() returned true in a final state entered by
\* a state transition
C29_Witness ==
    /\ last.op = "finalStateReached" /\ last.ret
    /\ ~m_started
    /\ m_currentState # m_initialTransition.state
    /\ m_finalEvent # <<>>

\* C30: a call that holds more than one mutex locks m_apiMutex, then
\* m_eventQueueMutex, then m_startedMutex: no call locks m_eventQueueMutex
\* while its thread holds m_startedMutex, and none locks m_apiMutex while its
\* thread holds m_eventQueueMutex or m_startedMutex.
C30_LockOrder ==
    \A t \in Threads :
       /\ Wanted(t) = "m_eventQueueMutex" => "m_startedMutex" \notin HeldBy(t)
       /\ Wanted(t) = "m_apiMutex" =>
             HeldBy(t) \cap {"m_eventQueueMutex", "m_startedMutex"} = {}

\* A state with a default internal or default state transition
HasDefault(stateData) ==
    stateData.defaultInternalTransition # <<>> \/ stateData.defaultStateTransition # <<>>

\* C32: when the dequeued event names an internal or state transition of the
\* current state and the guard of that transition returns false, the default
\* transition of the state is not tried: the only callback invoked is that
\* guard, with the arguments of the transition keyed by the event, and the
\* current state, the started flag and the final event are unchanged.
C32_NoFallbackToDefault ==
    [][(/\ ProcessStep
        /\ StepKind \in {"internal", "state"}
        /\ StepBlocked
        /\ HasDefault(m_states[m_currentState])) =>
        /\ last'.ret
        /\ last'.branch = StepKind
        /\ Len(calls') = 1
        /\ calls'[1].cb = (IF StepKind = "internal" THEN "internalGuard" ELSE "guard")
        /\ calls'[1].args = (IF StepKind = "internal"
                             THEN <<Head(m_eventQueue), m_currentState>>
                             ELSE <<Head(m_eventQueue), m_currentState, StepData.state>>)
        /\ UNCHANGED <<m_states, m_currentState, m_started, m_finalEvent>>
       ]_vars

\* C32 witness: the guard of the state transition on the event returned false
\* in a state that also has a default transition
C32_Witness ==
    /\ last.op = "processNextEvent" /\ last.ret /\ last.branch = "state"
    /\ Len(calls) = 1
    /\ calls[1].cb = "guard" /\ ~calls[1].ret
    /\ m_currentState \in DOMAIN m_states
    /\ m_currentState = calls[1].cur
    /\ HasDefault(m_states[m_currentState])
    /\ last.ev \in DOMAIN m_states[m_currentState].stateTransitions

\* C33: a state transition, keyed by the event or default, whose target is the
\* current state S and that fires invokes, in this order, those that are set
\* of the guard, the exit action of S, the transition action (all with
\* (e, S, S)) and the entry action of S with previous state S; the current
\* state and the started flag are unchanged and no final event is stored.
C33_SelfTransition ==
    [][(StateTransitionFires /\ StepData.state = m_currentState) =>
        LET S == m_currentState
            e == Head(m_eventQueue)
            expected == SetCallbacks(<<
                [cb |-> "guard", args |-> <<e, S, S>>, set |-> StepData.guard],
                [cb |-> "exitAction", args |-> <<e, S, S>>, set |-> m_states[S].exitAction],
                [cb |-> "action", args |-> <<e, S, S>>, set |-> StepData.action],
                [cb |-> "entryAction", args |-> <<e, S, S>>, set |-> m_states[S].entryAction]>>)
        IN /\ last'.ret
           /\ Len(calls') = Len(expected)
           /\ \A i \in 1..Len(expected) :
                 /\ calls'[i].cb = expected[i].cb
                 /\ calls'[i].args = expected[i].args
           /\ m_currentState' = S
           /\ m_started' = m_started
           /\ m_finalEvent' = m_finalEvent
       ]_vars

\* C33 witness: a default state transition from a state to itself ran the exit
\* action, the transition action and the entry action of the state
C33_Witness ==
    /\ last.op = "processNextEvent" /\ last.ret /\ last.branch = "defaultState"
    /\ m_started
    /\ \E i, j, k \in DOMAIN calls :
          /\ i < j /\ j < k
          /\ calls[i].cb = "exitAction" /\ calls[i].args = <<last.ev, m_currentState, m_currentState>>
          /\ calls[j].cb = "action"
          /\ calls[k].cb = "entryAction" /\ calls[k].args = <<last.ev, m_currentState, m_currentState>>

\* C35: a started machine is Valid: no public call makes a started machine
\* Unvalidated or Invalid.
C35_StartedIsValid == m_started => m_validationStatus = "Valid"

\* C35 witness: a configuration call was refused on a started machine
C35_Witness ==
    /\ m_started
    /\ m_validationStatus = "Valid"
    /\ last.op \in ConfigurationCalls /\ ~last.ret

\* C36: between public calls a started machine is in a declared state that is
\* not final: it has a transition of some kind.
C36_StartedNotFinal ==
    m_started =>
       /\ m_currentState \in DOMAIN m_states
       /\ ~isFinalState(m_states[m_currentState])

\* C36 witness: a state transition moved the started machine to another state
\* that is not final
C36_Witness ==
    /\ m_started
    /\ last.op = "processNextEvent" /\ last.branch \in {"state", "defaultState"}
    /\ calls # <<>> /\ calls[1].cur # m_currentState
    /\ m_currentState \in DOMAIN m_states
    /\ ~NoTransitions(m_states[m_currentState])

\* C37: between public calls the current state is empty or a declared state;
\* it is empty only until the first successful start(): a successful start()
\* leaves it non-empty and no call empties it again.  processNextEvent()
\* never takes its "Current state is invalid" branch and never returns false
\* after it removed an event from the queue.
C37_CurrentStateDeclared ==
    [][/\ m_currentState' = "" \/ m_currentState' \in DOMAIN m_states'
       /\ (last'.op = "start" /\ last'.ret) => m_currentState' # ""
       /\ m_currentState # "" => m_currentState' # ""
       /\ last'.branch # "invalid"
       /\ (last'.op = "processNextEvent" /\ ~last'.ret) => UNCHANGED m_eventQueue
       /\ (last'.op = "processNextEvent" /\ m_eventQueue' # m_eventQueue) => last'.ret
      ]_vars

\* C37 witness: processNextEvent() removed an event and returned true in a
\* state entered by an earlier transition, and the machine was stopped since
C37_Witness ==
    /\ last.op = "stop" /\ last.ret
    /\ m_currentState \in DOMAIN m_states
    /\ m_currentState # m_initialTransition.state
    /\ ~m_started

\* C38: between public calls a stored final event means a stopped machine; the
\* final event becomes stored only by an auto-stop, and after a successful
\* start() none is stored unless that start() auto-stopped.
C38_FinalEventMeansStopped ==
    [][/\ m_finalEvent' # <<>> => ~m_started'
       /\ (m_finalEvent = <<>> /\ m_finalEvent' # <<>>) => AutoStopStep
       /\ (last'.op = "start" /\ last'.ret /\ m_finalEvent' # <<>>) =>
              /\ ~m_started'
              /\ m_finalEvent' = <<last'.ev>>
       /\ (last'.op = "start" /\ last'.ret /\ m_started') => m_finalEvent' = <<>>
      ]_vars

\* C38 witness: a successful start() on a machine that rests in a final state
\* of its previous run left the machine started with no final event stored
C38_Witness ==
    /\ last.op = "start" /\ last.ret
    /\ m_started
    /\ m_finalEvent = <<>>
    /\ \E s \in DOMAIN m_states : NoTransitions(m_states[s])

\* C39: an event pending when the machine stops is never delivered: while the
\* machine is stopped processNextEvent() returns false, invokes no callback and
\* leaves the queue alone; a successful start() passes the start event to
\* its callbacks, and they find in the queue only the events enqueued by the
\* callbacks of this start() before them.
C39_PendingEventsDiscarded ==
    [][/\ (~m_started /\ last'.op = "processNextEvent") =>
              /\ ~last'.ret
              /\ calls' = <<>>
              /\ UNCHANGED members
       /\ (last'.op = "start" /\ last'.ret) =>
              /\ \A i \in 1..Len(calls') :
                    /\ calls'[i].args[1] = last'.ev
                    /\ calls'[i].queue = AfterAdds(<<>>, AllAdds(SubSeq(calls', 1, i - 1)))
              /\ (\A i \in 1..Len(calls') : calls'[i].adds = <<>>) => m_eventQueue' = <<>>
      ]_vars

\* C39 witness: processNextEvent() was refused after stop() with two events
\* pending
C39_Witness ==
    /\ last.op = "processNextEvent" /\ ~last.ret
    /\ ~m_started
    /\ Len(m_eventQueue) = 2
    /\ m_finalEvent = <<>>
    /\ m_currentState # ""

\* What every public method returns, does to the machine and invokes when it
\* is called on the machine m
Behaviour(m) ==
    [validate |-> validate(m),
     start |-> [event \in {"", StartedEvent} |-> start(m, event, <<>>)],
     stop |-> stop(m),
     finalStateReached |-> finalStateReached(m),
     takeFinalEvent |-> takeFinalEvent(m),
     addEventToFront |-> [event \in EventInputs |-> addEventToFront(m, event)],
     addEventToBack |-> [event \in EventInputs |-> addEventToBack(m, event)],
     processNextEvent |->
         [guardResult \in BOOLEAN |-> processNextEvent(m, <<>>, guardResult)]]

InsideRun(t) ==
    /\ threads[t] # <<>>
    /\ threads[t][1].op \in {"start", "processNextEvent"}
    /\ "m_apiMutex" \in threads[t][1].held

\* C31: hasFinalEvent() keeps the locking discipline of takeFinalEvent(): it
\* reads the final-event slot only while no other thread holds m_apiMutex
\* inside start() or processNextEvent(), so it never observes the slot in the
\* middle of such a call.
C31_HasFinalEventLocksApi ==
    [][\A t \in Threads :
          (/\ threads[t] # <<>>
           /\ Top(t).op = "hasFinalEvent" /\ Top(t).pc = "hasFinalEvent"
           /\ threads'[t] # threads[t]) =>
              \A u \in Threads \ {t} : ~InsideRun(u)
      ]_vars

\* Thread t is executing start()
InStart(t) == threads[t] # <<>> /\ Top(t).op = "start"

\* Thread t is executing addEventToFront() or addEventToBack()
InAdd(t) == threads[t] # <<>> /\ Top(t).op \in EnqueueOps

\* C40: start() clears the queue and sets the started flag atomically with
\* respect to the enqueue calls of other threads: between the two steps the
\* queue and the flag do not change and no enqueue call of another thread
\* executes a statement, and start() removes events from the queue only while
\* its started flag is not yet set, so it never removes an event that was
\* accepted because of that flag.
C40_ClearAndStartedAtomic ==
    [][\A t \in Threads :
          InStart(t) =>
             /\ (threads'[t] # threads[t] /\ m_eventQueue' # m_eventQueue) => ~m_started
             /\ (Top(t).pc = "setStarted" /\ threads'[t] = threads[t]) =>
                   /\ m_eventQueue' = m_eventQueue
                   /\ m_started' = m_started
                   /\ \A u \in Threads \ {t} : InAdd(u) => threads'[u] = threads[u]
      ]_vars

\* C40 witness: start() has cleared the queue and not yet set the started
\* flag while an enqueue call of another thread waits for m_eventQueueMutex
C40_Witness ==
    \E t \in Threads : \E u \in Threads \ {t} :
       /\ InStart(t) /\ Top(t).pc = "setStarted"
       /\ ~m_started /\ m_eventQueue = <<>>
       /\ InAdd(u) /\ Top(u).ev # "" /\ Top(u).pc = "lockQueue"
       /\ mutex.m_eventQueueMutex = t /\ mutex.m_startedMutex = t

====
